---- MODULE Spec2Model ----
(***************************************************************************)
(* A model of zod-command: the argument tokenizer (Devtool.parseArgs), the  *)
(* execution engine (Devtool.run), the middleware chain built by            *)
(* ActionBuilder.action and the layered configuration of ConfigManager.     *)
(*                                                                         *)
(* A string is a sequence of characters.  The characters the code looks at  *)
(* ("-", "=", " ", ":", "_", ".", digits) are themselves; every other       *)
(* run of letters the code only compares as a whole (help, greet, World)    *)
(* is one opaque character, so that startsWith, includes, split, replace    *)
(* and join are computed on the text as the code computes them.             *)
(*                                                                         *)
(* A JavaScript value is a record [k |-> kind, v |-> payload] with kind     *)
(* "str", "bool", "num", "null", "arr" or "obj".                            *)
(***************************************************************************)
EXTENDS Integers, Sequences, FiniteSets, TLC

VARIABLES
    argv,          \* the argument vector handed to run / parseArgs
    commands,      \* CliBuilder.commands = Devtool.commands, in insertion order
    aliases,       \* Devtool.aliases: scoped alias -> name, built by the constructor
    cfg,           \* the ConfigManager (if configured) and the environment and disk it reads
    cliArgs,       \* the commandLineArgs handed to loadConfig
    pluginsDir,    \* cliOptions.pluginsDir is set
    pc,            \* position of the run
    config,        \* Devtool.config, the value loadConfig returned
    parsed,        \* the value parseArgs returned: [command, options]
    commandAction, \* the definition run resolved
    currentCtx,    \* currentCtx of the wrapped handler
    mwIndex,       \* index of applyMiddleware (from 1)
    mwTrace,       \* the middleware entered so far, with what each did
    handlerSaw,    \* the context of each invocation of the terminal handler
    result,        \* the value the wrapped handler returned
    log,           \* the lines given to the logger
    shown,         \* what was rendered on the console: help, command help, version
    status,        \* the promise run returned: running, resolved or rejected
    builders,      \* the ActionBuilder objects created so far, in order of creation
    globalMiddleware, \* CliBuilder.globalMiddleware
    lineage,       \* for each builder: the call that returned it and what it returned
    finalized,     \* for each builder: what the last action() on it came to
    callCount      \* the calls made on the builders and on the CliBuilder

vars == <<argv, commands, aliases, cfg, cliArgs, pluginsDir, pc, config, parsed,
          commandAction, currentCtx, mwIndex, mwTrace, handlerSaw, result, log,
          shown, status, builders, globalMiddleware, lineage, finalized,
          callCount>>

----------------------------------------------------------------------------
(* Bounds *)

\* arguments after the script name, for the tokenizer alone
MaxArgs == 3

\* arguments after the script name, for a run of the engine
MaxRunArgs == 2

\* plugin directories under pluginsDir
MaxPlugins == 1

\* variables in process.env
MaxEnv == 1

\* candidate files in configFiles
MaxFiles == 1

----------------------------------------------------------------------------
(* Values *)

StrV(s) == [k |-> "str", v |-> s]

TrueV == [k |-> "bool", v |-> TRUE]

FalseV == [k |-> "bool", v |-> FALSE]

Undefined == [k |-> "undefined", v |-> <<>>]

NullV == [k |-> "null", v |-> <<>>]

NumV(n) == [k |-> "num", v |-> n]

\* a number with a fractional part: its sign, its integer part and the digits
\* after the point
FloatV(sign, whole, frac) == [k |-> "float", v |-> <<sign, whole, frac>>]

ArrV(items) == [k |-> "arr", v |-> items]

\* a plain keyed structure: v is a function from keys (strings) to values
ObjV(fields) == [k |-> "obj", v |-> fields]

EmptyObject == ObjV(<<>>)

\* obj[key] = val
Put(obj, key, val) ==
    ObjV([x \in (DOMAIN obj.v) \cup {key} |-> IF x = key THEN val ELSE obj.v[x]])

Has(obj, key) == obj.k = "obj" /\ key \in DOMAIN obj.v

\* value !== null && typeof value === "object" && !Array.isArray(value)
IsPlainObject(val) == val.k = "obj"

\* JavaScript truthiness, as read by `!x` and `x || y`
Truthy(val) ==
    CASE val.k = "undefined" -> FALSE
      [] val.k = "null" -> FALSE
      [] val.k = "bool" -> val.v
      [] val.k = "num" -> val.v # 0
      [] val.k = "str" -> val.v # <<>>
      [] OTHER -> TRUE

----------------------------------------------------------------------------
(* Strings *)

\* a character the class \s matches
IsSpace(c) == c \in {" ", "\t"}

\* String.prototype.startsWith("--")
StartsWithDashDash(s) == Len(s) >= 2 /\ s[1] = "-" /\ s[2] = "-"

\* String.prototype.includes(c) for a single character c
Includes(s, c) == \E i \in 1..Len(s) : s[i] = c

\* Array.prototype.includes(token)
ArrayIncludes(arr, token) == \E i \in 1..Len(arr) : arr[i] = token

\* index of the first occurrence of c in s from position i on, Len(s)+1 if none
RECURSIVE IndexFrom(_, _, _)
IndexFrom(s, c, i) ==
    IF i > Len(s) THEN Len(s) + 1
    ELSE IF s[i] = c THEN i
    ELSE IndexFrom(s, c, i + 1)

\* String.prototype.split(c): every piece between two occurrences of c
RECURSIVE Split(_, _)
Split(s, c) ==
    LET j == IndexFrom(s, c, 1)
    IN  IF j > Len(s) THEN <<s>>
        ELSE <<SubSeq(s, 1, j - 1)>> \o Split(SubSeq(s, j + 1, Len(s)), c)

\* String.prototype.split(c, limit): the first `limit` pieces of the full split
SplitLimit(s, c, limit) ==
    LET all == Split(s, c)
    IN  SubSeq(all, 1, IF Len(all) < limit THEN Len(all) ELSE limit)

\* Array.prototype.join(sep)
RECURSIVE Join(_, _)
Join(parts, sep) ==
    IF parts = <<>> THEN <<>>
    ELSE IF Len(parts) = 1 THEN parts[1]
    ELSE parts[1] \o sep \o Join(Tail(parts), sep)

RECURSIVE DropSpaces(_)
DropSpaces(s) ==
    IF s # <<>> /\ IsSpace(s[1]) THEN DropSpaces(Tail(s)) ELSE s

\* a conversion that leaves the name as it is
KeepCommandFormat(command) == command

\* command.replace(/\s+/g, ":")
RECURSIVE toInternalCommandFormat(_)
toInternalCommandFormat(command) ==
    IF command = <<>> THEN <<>>
    ELSE IF IsSpace(command[1])
         THEN <<":">> \o toInternalCommandFormat(DropSpaces(Tail(command)))
         ELSE <<command[1]>> \o toInternalCommandFormat(Tail(command))

\* command.replace(/:/g, " ")
toDisplayCommandFormat(command) ==
    [i \in 1..Len(command) |-> IF command[i] = ":" THEN " " ELSE command[i]]

----------------------------------------------------------------------------
(* Devtool.parseArgs *)

HelpLong == <<"-", "-", "help">>
HelpShort == <<"-", "h">>
VersionLong == <<"-", "-", "version">>
VersionShort == <<"-", "v">>

\* argv.slice(2)
ProcessArgs(av) == SubSeq(av, 3, Len(av))

\* the while loop: the index of the first token that starts with "--"
RECURSIVE FirstOption(_, _)
FirstOption(processArgs, i) ==
    IF i <= Len(processArgs) /\ ~StartsWithDashDash(processArgs[i])
    THEN FirstOption(processArgs, i + 1)
    ELSE i

CommandParts(processArgs) ==
    SubSeq(processArgs, 1, FirstOption(processArgs, 1) - 1)

\* let command = this.toInternalCommandFormat(commandParts.join(" "))
CommandPath(processArgs) ==
    toInternalCommandFormat(Join(CommandParts(processArgs), <<" ">>))

\* if (this.aliases.has(command)) { ... command = aliasTarget }
ResolveAlias(table, command) ==
    IF command \in DOMAIN table /\ table[command] # <<>>
    THEN table[command]
    ELSE command

\* const [key, value] = flag.split("=", 2)
FlagKey(flag) == SplitLimit(flag, "=", 2)[1]

FlagValue(flag) == SplitLimit(flag, "=", 2)[2]

\* the for loop over the option tokens, from index i on
RECURSIVE ParseOptions(_, _, _)
ParseOptions(processArgs, i, options) ==
    IF i > Len(processArgs) THEN options
    ELSE LET arg == processArgs[i]
             flag == SubSeq(arg, 3, Len(arg))
         IN  IF ~StartsWithDashDash(arg)
             THEN ParseOptions(processArgs, i + 1, options)
             ELSE IF Includes(flag, "=")
             THEN ParseOptions(processArgs, i + 1,
                      Put(options, FlagKey(flag), StrV(FlagValue(flag))))
             ELSE IF i + 1 > Len(processArgs)
                     \/ StartsWithDashDash(processArgs[i + 1])
             THEN ParseOptions(processArgs, i + 1, Put(options, flag, TrueV))
             ELSE ParseOptions(processArgs, i + 2,
                      Put(options, flag, StrV(processArgs[i + 1])))

\* a help flag that counts only as the first argument
HelpFlagLeading(processArgs) ==
    processArgs # <<>> /\ processArgs[1] \in {HelpLong, HelpShort}

\* processArgs.includes("--help") || processArgs.includes("-h")
HasHelpFlag(processArgs) ==
    ArrayIncludes(processArgs, HelpLong) \/ ArrayIncludes(processArgs, HelpShort)

\* processArgs.includes("--version") || processArgs.includes("-v")
HasVersionFlag(processArgs) ==
    ArrayIncludes(processArgs, VersionLong) \/ ArrayIncludes(processArgs, VersionShort)

parseArgs(av, table) ==
    IF Len(av) < 3 THEN [command |-> <<"help">>, options |-> EmptyObject]
    ELSE LET processArgs == ProcessArgs(av)
             commandParts == CommandParts(processArgs)
             command == CommandPath(processArgs)
         IN  IF HasHelpFlag(processArgs)
             THEN [command |-> <<"help">>, options |-> EmptyObject]
             ELSE IF HasVersionFlag(processArgs)
             THEN [command |-> <<"version">>, options |-> EmptyObject]
             ELSE IF command = <<"help">> /\ Len(commandParts) > 1
             THEN [command |-> <<"help">>,
                   options |-> Put(EmptyObject, <<"command">>,
                       StrV(toInternalCommandFormat(
                           Join(Tail(commandParts), <<" ">>))))]
             ELSE [command |-> ResolveAlias(table, command),
                   options |-> ParseOptions(processArgs,
                       FirstOption(processArgs, 1), EmptyObject)]

----------------------------------------------------------------------------
(* Schema validation: schema.parse(data) of a z.object of plain fields.     *)
(* A schema node is [t, opt, nul, shape]: its type, whether the key may be  *)
(* absent, whether null is accepted, and for an object the schema per key.  *)
(* Keys outside the shape are stripped; accepted values are not changed.    *)

SString == [t |-> "string", opt |-> FALSE, nul |-> FALSE, shape |-> <<>>]

SNumber == [t |-> "number", opt |-> FALSE, nul |-> FALSE, shape |-> <<>>]

SBoolean == [t |-> "boolean", opt |-> FALSE, nul |-> FALSE, shape |-> <<>>]

SObject(shape) == [t |-> "object", opt |-> FALSE, nul |-> FALSE, shape |-> shape]

Optional(schema) == [schema EXCEPT !.opt = TRUE]

Nullable(schema) == [schema EXCEPT !.nul = TRUE]

\* the paths (sequences of keys) at which `val` breaks `schema`, `here` being the path so far
RECURSIVE SchemaErrors(_, _, _)
SchemaErrors(schema, val, here) ==
    IF schema.nul /\ val.k = "null" THEN {}
    ELSE CASE schema.t = "string" -> IF val.k = "str" THEN {} ELSE {here}
           [] schema.t = "number" ->
                  IF val.k \in {"num", "float"} THEN {} ELSE {here}
           [] schema.t = "boolean" -> IF val.k = "bool" THEN {} ELSE {here}
           [] OTHER ->
                  IF val.k # "obj" THEN {here}
                  ELSE UNION { IF key \in DOMAIN val.v
                               THEN SchemaErrors(schema.shape[key], val.v[key],
                                                 Append(here, key))
                               ELSE IF schema.shape[key].opt THEN {}
                               ELSE {Append(here, key)}
                               : key \in DOMAIN schema.shape }

\* the value parse returns when there is no error: unknown keys stripped
RECURSIVE SchemaStrip(_, _)
SchemaStrip(schema, val) ==
    IF schema.t = "object" /\ val.k = "obj"
    THEN ObjV([key \in (DOMAIN schema.shape) \cap (DOMAIN val.v) |->
                  SchemaStrip(schema.shape[key], val.v[key])])
    ELSE val

\* schema.parse(val): the parsed value, or the ZodError with its field paths
SchemaParse(schema, val) ==
    LET errs == SchemaErrors(schema, val, <<>>)
    IN  IF errs = {} THEN [ok |-> TRUE, value |-> SchemaStrip(schema, val), errors |-> {}]
        ELSE [ok |-> FALSE, value |-> Undefined, errors |-> errs]

----------------------------------------------------------------------------
(* ConfigManager *)

\* one log line: logger.info / warn / error (message)
LogLine(level, msg) == [level |-> level, msg |-> msg, paths |-> {}]

\* the lines `- path: message`, one per field error of a ZodError
FieldErrorLines(errs) == [level |-> "error", msg |-> "field errors", paths |-> errs]

\* String.prototype.toLowerCase, character by character
LowerChar(c) ==
    CASE c = "PORT" -> "port"
      [] c = "DB" -> "db"
      [] c = "HOST" -> "host"
      [] c = "DEBUG" -> "debug"
      [] c = "TRUE" -> "true"
      [] c = "True" -> "true"
      [] c = "FALSE" -> "false"
      [] c = "APP" -> "app"
      [] c = "CONSTRUCTOR" -> "constructor"
      [] OTHER -> c

ToLowerCase(s) == [i \in 1..Len(s) |-> LowerChar(s[i])]

\* String.prototype.startsWith(prefix)
StartsWith(s, prefix) ==
    Len(s) >= Len(prefix) /\ SubSeq(s, 1, Len(prefix)) = prefix

\* String.prototype.endsWith(suffix)
EndsWith(s, suffix) ==
    Len(s) >= Len(suffix)
    /\ SubSeq(s, Len(s) - Len(suffix) + 1, Len(s)) = suffix

Digits == {"0", "1", "2", "3", "4", "5", "6", "7", "8", "9"}

DigitValue(c) ==
    CASE c = "0" -> 0 [] c = "1" -> 1 [] c = "2" -> 2 [] c = "3" -> 3
      [] c = "4" -> 4 [] c = "5" -> 5 [] c = "6" -> 6 [] c = "7" -> 7
      [] c = "8" -> 8 [] c = "9" -> 9

AllDigits(s) == s # <<>> /\ \A i \in 1..Len(s) : s[i] \in Digits

RECURSIVE DigitsValue(_, _)
DigitsValue(s, acc) ==
    IF s = <<>> THEN acc ELSE DigitsValue(Tail(s), 10 * acc + DigitValue(s[1]))

Unsigned(s) == IF s # <<>> /\ s[1] = "-" THEN Tail(s) ELSE s

Sign(s) == IF s # <<>> /\ s[1] = "-" THEN -1 ELSE 1

\* /^-?\d+$/.test(value)
IsIntegerText(s) == AllDigits(Unsigned(s))

\* /^-?\d+\.\d+$/.test(value)
IsDecimalText(s) ==
    LET u == Unsigned(s)
        dot == IndexFrom(u, ".", 1)
    IN  /\ dot <= Len(u)
        /\ AllDigits(SubSeq(u, 1, dot - 1))
        /\ AllDigits(SubSeq(u, dot + 1, Len(u)))

\* the digits after the point without their trailing zeros
RECURSIVE TrimZeros(_)
TrimZeros(s) ==
    IF s # <<>> /\ s[Len(s)] = "0" THEN TrimZeros(SubSeq(s, 1, Len(s) - 1)) ELSE s

\* Number.parseFloat of a decimal text
ParseFloat(s) ==
    LET u == Unsigned(s)
        dot == IndexFrom(u, ".", 1)
        whole == DigitsValue(SubSeq(u, 1, dot - 1), 0)
        frac == TrimZeros(SubSeq(u, dot + 1, Len(u)))
    IN  IF frac = <<>> THEN NumV(Sign(s) * whole)
        ELSE FloatV(Sign(s), whole, frac)

\* the if / else-if chain that turns the text of a variable into a value
CoerceEnvValue(value) ==
    IF ToLowerCase(value) = <<"true">> THEN TrueV
    ELSE IF ToLowerCase(value) = <<"false">> THEN FalseV
    ELSE IF IsIntegerText(value)
    THEN NumV(Sign(value) * DigitsValue(Unsigned(value), 0))
    ELSE IF IsDecimalText(value) THEN ParseFloat(value)
    ELSE StrV(value)

\* what went wrong instead of a value: a thrown Error, or a thrown ZodError
Thrown(kind) == [k |-> "thrown", v |-> kind]

IsThrown(val) == val.k = "thrown"

\* Object.prototype.constructor, which every plain object inherits
ObjectConstructor == [k |-> "function", v |-> <<"Object">>]

\* current[segment] of a plain object reads an inherited property too
Inherits(current, segment) ==
    ~Has(current, segment) /\ segment = <<"constructor">>

\* walk configPath from `current`, creating {} where a segment is falsy, and
\* assign value at the last segment; assigning a property of a primitive
\* throws; a segment read from the prototype leads out of the configuration,
\* the value landing on the function Object
RECURSIVE SetEnvPath(_, _, _)
SetEnvPath(current, configPath, value) ==
    IF current.k = "function" THEN current
    ELSE IF current.k # "obj" THEN Thrown("TypeError")
    ELSE IF Len(configPath) = 1 THEN Put(current, configPath[1], value)
    ELSE LET segment == configPath[1]
             child == IF Has(current, segment) /\ Truthy(current.v[segment])
                      THEN current.v[segment]
                      ELSE IF Inherits(current, segment) THEN ObjectConstructor
                      ELSE EmptyObject
             below == SetEnvPath(child, Tail(configPath), value)
         IN  IF IsThrown(below) THEN below
             ELSE IF Inherits(current, segment) THEN current
             ELSE Put(current, segment, below)

\* the body of the loop of loadFromEnv for one variable [key, value]
LoadEnvEntry(built, envPrefix, entry) ==
    IF IsThrown(built) THEN built
    ELSE IF StartsWith(entry.key, envPrefix)
    THEN LET configKey ==
                 ToLowerCase(SubSeq(entry.key, Len(envPrefix) + 1, Len(entry.key)))
         IN  SetEnvPath(built, Split(configKey, "_"), CoerceEnvValue(entry.value))
    ELSE built

RECURSIVE LoadEnvEntries(_, _, _)
LoadEnvEntries(built, envPrefix, entries) ==
    IF entries = <<>> THEN built
    ELSE LoadEnvEntries(LoadEnvEntry(built, envPrefix, entries[1]),
                        envPrefix, Tail(entries))

\* ConfigManager.loadFromEnv over process.env (its entries in order)
loadFromEnv(envPrefix, env) ==
    IF envPrefix = <<>> THEN EmptyObject
    ELSE LoadEnvEntries(EmptyObject, envPrefix, env)

\* ConfigLoaderRegistry.getLoaderForFile: the first loader whose canLoad accepts
getLoaderForFile(filePath) ==
    IF EndsWith(filePath, <<".", "js">>) THEN "js"
    ELSE IF EndsWith(filePath, <<".", "ts">>) THEN "ts"
    ELSE IF EndsWith(filePath, <<".", "json">>) THEN "json"
    ELSE IF EndsWith(filePath, <<".", "yml">>) \/ EndsWith(filePath, <<".", "yaml">>)
    THEN "yaml"
    ELSE "none"

\* ConfigManager.loadFromFiles from candidate i on; disk[path] says whether the
\* file exists and what its loader returns or throws
RECURSIVE LoadFromFilesAt(_, _, _, _)
LoadFromFilesAt(configFiles, disk, i, lines) ==
    IF i > Len(configFiles) THEN [config |-> EmptyObject, log |-> lines, read |-> {}]
    ELSE LET configFile == configFiles[i]
         IN  IF ~disk[configFile].exists
             THEN LoadFromFilesAt(configFiles, disk, i + 1, lines)
             ELSE IF getLoaderForFile(configFile) = "none"
             THEN LoadFromFilesAt(configFiles, disk, i + 1,
                      Append(lines, LogLine("warn", "No loader found for config file")))
             ELSE IF IsThrown(disk[configFile].content)
             THEN LET rest == LoadFromFilesAt(configFiles, disk, i + 1,
                                  Append(lines, LogLine("warn", "Error loading config")))
                  IN  [rest EXCEPT !.read = @ \cup {i}]
             ELSE [config |-> disk[configFile].content,
                   log |-> Append(lines, LogLine("info", "Loaded config")),
                   read |-> {i}]

\* a loadFromFiles that looks at the first candidate alone
loadFromFirstCandidate(configFiles, disk) ==
    LoadFromFilesAt(IF configFiles = <<>> THEN <<>> ELSE <<configFiles[1]>>,
                    disk, 1, <<>>)

loadFromFiles(configFiles, disk) == LoadFromFilesAt(configFiles, disk, 1, <<>>)

\* the object spread { ...target }
Spread(target) ==
    CASE target.k = "obj" -> target
      [] target.k = "arr" ->
             ObjV([key \in { <<c>> : c \in { d \in Digits : DigitValue(d) < Len(target.v) } }
                      |-> target.v[DigitValue(key[1]) + 1]])
      [] target.k = "str" ->
             ObjV([key \in { <<c>> : c \in { d \in Digits : DigitValue(d) < Len(target.v) } }
                      |-> StrV(<<target.v[DigitValue(key[1]) + 1]>>)])
      [] OTHER -> EmptyObject

\* a merge in which a key the target holds keeps the target's value
mergeConfigKeepingTarget(target, source) ==
    LET copy == Spread(target).v
        src == source.v
    IN  ObjV([key \in (DOMAIN copy) \cup (DOMAIN src) |->
            IF key \in DOMAIN copy THEN copy[key] ELSE src[key]])

\* ConfigManager.mergeConfig(target, source)
RECURSIVE mergeConfig(_, _)
mergeConfig(target, source) ==
    LET copy == Spread(target).v
        src == source.v
    IN  ObjV([key \in (DOMAIN copy) \cup (DOMAIN src) |->
            IF key \notin DOMAIN src THEN copy[key]
            ELSE IF IsPlainObject(src[key])
            THEN mergeConfig(IF key \in DOMAIN copy /\ Truthy(copy[key])
                             THEN copy[key]
                             ELSE EmptyObject,
                             src[key])
            ELSE src[key]])

\* the catch block of loadConfig: log, then parse the defaults alone
LoadConfigCatch(mgr, lines, error) ==
    LET logged == IF error.k = "zod"
                  THEN lines \o <<LogLine("error", "Configuration validation error:"),
                                  FieldErrorLines(error.v)>>
                  ELSE Append(lines, LogLine("error", "Error loading configuration"))
        defaultConfig == SchemaParse(mgr.schema, mgr.defaults)
    IN  IF defaultConfig.ok
        THEN [value |-> defaultConfig.value, log |-> logged, outcome |-> "fallback"]
        ELSE [value |-> Thrown("ZodError"), log |-> logged, outcome |-> "throw"]

\* ConfigManager.loadConfig(commandLineArgs), for a manager
\* [schema, configFiles, envPrefix, defaults] in a world [env, disk]
loadConfig(mgr, world, commandLineArgs) ==
    LET fromEnv == loadFromEnv(mgr.envPrefix, world.env)
    IN  IF IsThrown(fromEnv)
        THEN LoadConfigCatch(mgr, <<>>, fromEnv)
        ELSE LET fromFiles == loadFromFiles(mgr.configFiles, world.disk)
                 configData ==
                     mergeConfig(
                         mergeConfig(
                             mergeConfig(Spread(mgr.defaults), fromEnv),
                             fromFiles.config),
                         commandLineArgs)
                 validatedConfig == SchemaParse(mgr.schema, configData)
             IN  IF validatedConfig.ok
                 THEN [value |-> validatedConfig.value, log |-> fromFiles.log,
                       outcome |-> "ok"]
                 ELSE LoadConfigCatch(mgr, fromFiles.log,
                          [k |-> "zod", v |-> validatedConfig.errors])

----------------------------------------------------------------------------
(* The command registry: CliBuilder.commands, a Map kept in insertion order *)

NoSchema == [t |-> "none", opt |-> FALSE, nul |-> FALSE, shape |-> <<>>]

\* a CommandDefinition; parent <<>> is an absent parent, group <<>> absent
\* metadata; metadata holds the group alone and there are no examples unless a
\* builder supplied more
CommandDefinition(name, parent, group, aliasList, inputSchema, outputSchema, middleware) ==
    [name |-> name, parent |-> parent, group |-> group, aliases |-> aliasList,
     inputSchema |-> inputSchema, outputSchema |-> outputSchema,
     middleware |-> middleware,
     metadata |-> IF group = <<>> THEN Undefined
                  ELSE ObjV((<<"group">> :> StrV(group))),
     examples |-> <<>>]

NoCommand ==
    CommandDefinition(<<>>, <<>>, <<>>, <<>>, NoSchema, NoSchema, <<>>)

\* Map.prototype.has
MapHas(map, key) == \E i \in 1..Len(map) : map[i].name = key

\* Map.prototype.get, NoCommand standing for undefined
MapGet(map, key) ==
    IF MapHas(map, key)
    THEN map[CHOOSE i \in 1..Len(map) : map[i].name = key]
    ELSE NoCommand

\* CliBuilder.registerCommand: this.commands.set(command.name, command)
registerCommand(map, command) ==
    IF MapHas(map, command.name)
    THEN [i \in 1..Len(map) |->
             IF map[i].name = command.name THEN command ELSE map[i]]
    ELSE Append(map, command)

\* the two commands the constructor of CliBuilder registers
BuiltinCommands ==
    registerCommand(
        registerCommand(<<>>,
            CommandDefinition(<<"help">>, <<>>, <<>>, <<>>,
                SObject((<<"command">> :> Optional(SString))), NoSchema, <<>>)),
        CommandDefinition(<<"version">>, <<>>, <<>>, <<>>,
            SObject(<<>>), NoSchema, <<>>))

\* an alias table whose keys are the bare aliases, without the parent
RECURSIVE AddAliasesUnscoped(_, _, _)
AddAliasesUnscoped(table, command, i) ==
    IF i > Len(command.aliases) THEN table
    ELSE AddAliasesUnscoped(
             [x \in (DOMAIN table) \cup {command.aliases[i]} |->
                 IF x = command.aliases[i] THEN command.name ELSE table[x]],
             command, i + 1)

\* this.aliases.set(fullAlias, name) for each alias of one command
RECURSIVE AddAliases(_, _, _)
AddAliases(table, command, i) ==
    IF i > Len(command.aliases) THEN table
    ELSE LET alias == command.aliases[i]
             fullAlias == IF command.parent # <<>>
                          THEN command.parent \o <<":">> \o alias
                          ELSE alias
         IN  AddAliases([x \in (DOMAIN table) \cup {fullAlias} |->
                            IF x = fullAlias THEN command.name ELSE table[x]],
                        command, i + 1)

\* the loop of the constructor of Devtool over this.commands.entries()
RECURSIVE BuildAliases(_, _, _)
BuildAliases(table, map, i) ==
    IF i > Len(map) THEN table
    ELSE BuildAliases(AddAliases(table, map[i], 1), map, i + 1)

\* a lookup that also resolves an alias without the parent it is scoped to
LookupCommandUnscoped(map, table, command) ==
    LET owners == { i \in 1..Len(map) :
                      \E j \in 1..Len(map[i].aliases) : map[i].aliases[j] = command }
    IN  IF MapHas(map, command) THEN MapGet(map, command)
        ELSE IF command \in DOMAIN table THEN MapGet(map, table[command])
        ELSE IF owners # {} THEN map[CHOOSE i \in owners : TRUE]
        ELSE NoCommand

\* this.commands.get(command) || this.commands.get(this.aliases.get(command) || "")
LookupCommand(map, table, command) ==
    IF MapHas(map, command) THEN MapGet(map, command)
    ELSE MapGet(map, IF command \in DOMAIN table THEN table[command] ELSE <<>>)

----------------------------------------------------------------------------
(* The middleware chain: MiddlewareBuilder.define and the wrapped handler   *)
(* of ActionBuilder.action.  A middleware function is user code; what it    *)
(* does when entered is one of:                                             *)
(*   append  return next({ctx: {log: [...(ctx.log ?? []), id]}})            *)
(*   tag     return next({ctx: {user: id}})                                 *)
(*   pass    return next()                                                  *)
(*   stop    return its own result without calling next                     *)
(*   throw   throw an Error before calling next                             *)

MwBehaviours == {"append", "tag", "pass", "stop", "throw"}

Logger == [k |-> "logger", v |-> <<>>]

\* context: { logger: this.logger }
OriginalContext == ObjV((<<"logger">> :> Logger))

\* { ...b }: the keys of a are dropped
ShallowMergePatchOnly(a, b) == b

\* { ...a, ...b }
ShallowMerge(a, b) ==
    ObjV([key \in (DOMAIN a.v) \cup (DOMAIN b.v) |->
             IF key \in DOMAIN b.v THEN b.v[key] ELSE a.v[key]])

\* ctx.log ?? []
LogOf(ctx) == IF Has(ctx, <<"log">>) THEN ctx.v[<<"log">>].v ELSE <<>>

\* the options a middleware function gives to next
NextOptions(id, behaviour, ctx) ==
    CASE behaviour = "append" -> ObjV((<<"log">> :> ArrV(Append(LogOf(ctx), id))))
      [] behaviour = "tag" -> ObjV((<<"user">> :> StrV(<<id>>)))
      [] OTHER -> Undefined

\* a next that hands on the context it was entered with
NextCtxUnchanged(ctx, patch) == ctx

\* const newCtx = options?.ctx ? { ...ctx, ...options.ctx } : ctx
NextCtx(ctx, patch) ==
    IF Truthy(patch) THEN ShallowMerge(ctx, patch) ELSE ctx

\* applyMiddleware(index): the handler once index >= middlewareFunctions.length
\* (index counted from 1 here), the middleware at index otherwise
ApplyTarget(index, middleware) ==
    IF index > Len(middleware) THEN "handler" ELSE "middleware"

\* a chain that goes on to the next link whether or not next was called
AfterMiddlewareGoingOn(behaviour) ==
    IF behaviour = "throw" THEN "throw" ELSE "next"

\* where the chain goes after a middleware function ran: on to the next link
\* when it called next, back to the caller with its own result when it did not
AfterMiddleware(behaviour) ==
    CASE behaviour \in {"append", "tag", "pass"} -> "next"
      [] behaviour = "stop" -> "return"
      [] OTHER -> "throw"

\* the result a short-circuiting middleware produces
StopResult(id) == ObjV((<<"stoppedBy">> :> StrV(<<id>>)))

\* what the terminal handler (user code) does: return a value that fits the
\* output schema, one that does not, return undefined, throw an Error, or
\* throw a ZodError of its own
HandlerBehaviours == {"ok", "bad", "undefined", "throw", "throwZod"}

HandlerResult(behaviour) ==
    CASE behaviour = "ok" -> ObjV((<<"message">> :> StrV(<<"hello">>)))
      [] behaviour = "bad" -> ObjV((<<"message">> :> NumV(1)))
      [] OTHER -> Undefined

----------------------------------------------------------------------------
(* Devtool.initialize and Devtool.run *)

\* no ActionBuilder is held, no global middleware is registered
NoBuilders ==
    /\ builders = <<>>
    /\ globalMiddleware = <<>>
    /\ lineage = <<>>
    /\ finalized = <<>>
    /\ callCount = 0

NoParse == [command |-> <<>>, options |-> Undefined]

Show(what, name) == [what |-> what, name |-> name]

\* Devtool.displayHelp: the general help
displayHelp(out) == Append(out, Show("help", <<>>))

\* Devtool.displayCommandHelp(commandName): [log, shown] afterwards
displayCommandHelp(map, lines, out, commandName) ==
    IF ~MapHas(map, commandName)
    THEN [log |-> Append(lines, LogLine("error", "Unknown command")),
          shown |-> displayHelp(out)]
    ELSE [log |-> lines, shown |-> Append(out, Show("commandHelp", commandName))]

\* the catch of the try around validation, handler and output validation
InnerCatch(lines, error) ==
    IF error.k = "zod"
    THEN lines \o <<LogLine("error", "Invalid command arguments:"),
                    FieldErrorLines(error.v),
                    LogLine("info", "Run with --help for usage information.")>>
    ELSE Append(lines, LogLine("error", "Error executing command"))

\* no catch around the whole of run: the error leaves run
RunRethrow(lines, error) == [log |-> lines, status |-> "rejected"]

\* the catch of the try around the whole of run: the error is logged and the
\* promise resolves
RunCatch(lines, error) ==
    [log |-> Append(lines, LogLine("error", "Unexpected error")),
     status |-> "resolved"]

\* await this.initialize(): run passes no commandLineArgs, so the default {}
InitializeArgs(options) == EmptyObject

\* what loading one plugin directory comes to
PluginOutcomes == {"noManifest", "invalid", "registers", "initThrows"}

\* the command a plugin registers through the CliBuilder it is given
PluginCommand ==
    CommandDefinition(<<"plug">>, <<>>, <<"default">>, << <<"p">> >>,
        SObject(<<>>), NoSchema, <<>>)

\* PluginManager.loadPlugin for one plugin directory: [commands, log] afterwards
loadPlugin(st, outcome) ==
    CASE outcome = "noManifest" ->
             [st EXCEPT !.log = Append(@, LogLine("warn", "Plugin manifest not found"))]
      [] outcome = "invalid" ->
             [st EXCEPT !.log = Append(@, LogLine("error", "Invalid plugin"))]
      [] outcome = "registers" ->
             [commands |-> registerCommand(st.commands, PluginCommand),
              log |-> Append(st.log, LogLine("info", "Loaded plugin"))]
      [] OTHER ->
             [st EXCEPT !.log = Append(@, LogLine("error", "Error loading plugin"))]

RECURSIVE LoadPlugins(_, _)
LoadPlugins(st, outcomes) ==
    IF outcomes = <<>> THEN st
    ELSE LoadPlugins(loadPlugin(st, outcomes[1]), Tail(outcomes))

\* PluginManager.loadPluginsFromDirectory: the directory is missing, reading it
\* throws, or its plugin directories are loaded one after the other
loadPluginsFromDirectory(st, dir, outcomes) ==
    CASE dir = "missing" ->
             [st EXCEPT !.log = Append(@, LogLine("warn", "Plugins directory not found"))]
      [] dir = "unreadable" ->
             [st EXCEPT !.log = Append(@, LogLine("error", "Error loading plugins"))]
      [] OTHER ->
             LET done == LoadPlugins(st, outcomes)
             IN  [done EXCEPT !.log = Append(@, LogLine("info", "Loaded plugins"))]

\* a gate that lets every input through
InputAcceptedAlways(validated) == TRUE

\* the input passes the schema: the handler may be invoked
InputAccepted(validated) == validated.ok

\* the builders are done with when a run starts
BuilderVars == <<builders, globalMiddleware, lineage, finalized, callCount>>

RunInputs == <<argv, cfg, cliArgs, pluginsDir, aliases, BuilderVars>>

ChainVars == <<currentCtx, mwIndex, mwTrace, handlerSaw, result>>

\* initialize, first half: this.config = await this.configManager.loadConfig(...)
InitializeConfig ==
    /\ pc = "start"
    /\ LET loaded == IF cfg.configured
                     THEN loadConfig(cfg.mgr, cfg.world, InitializeArgs(parsed.options))
                     ELSE [value |-> EmptyObject, log |-> <<>>, outcome |-> "ok"]
       IN  IF IsThrown(loaded.value)
           THEN LET caught == RunCatch(log \o loaded.log, loaded.value)
                IN  /\ log' = caught.log
                    /\ status' = caught.status
                    /\ pc' = "done"
                    /\ config' = config
           ELSE /\ config' = loaded.value
                /\ log' = log \o loaded.log
                /\ pc' = "plugins"
                /\ status' = status
    /\ UNCHANGED <<RunInputs, ChainVars, commands, parsed, commandAction, shown>>

\* initialize, second half: the plugins, when a plugins directory is configured
InitializePlugins ==
    /\ pc = "plugins"
    /\ IF pluginsDir
       THEN \E dir \in {"missing", "unreadable", "read"} :
            \E outcomes \in UNION { [1..n -> PluginOutcomes] : n \in 0..MaxPlugins } :
                /\ dir # "read" => outcomes = <<>>
                /\ LET st == loadPluginsFromDirectory(
                                 [commands |-> commands, log |-> log], dir, outcomes)
                   IN  /\ commands' = st.commands
                       /\ log' = st.log
       ELSE UNCHANGED <<commands, log>>
    /\ pc' = "parse"
    /\ UNCHANGED <<RunInputs, ChainVars, config, parsed, commandAction, shown, status>>

\* path.basename(argv[1]) throws on a missing argv[1]; then this.parseArgs(argv)
ParseArguments ==
    /\ pc = "parse"
    /\ IF Len(argv) < 2
       THEN LET caught == RunCatch(log, Thrown("TypeError"))
            IN  /\ log' = caught.log
                /\ status' = caught.status
                /\ pc' = "done"
                /\ parsed' = parsed
       ELSE /\ parsed' = parseArgs(argv, aliases)
            /\ pc' = "dispatch"
            /\ UNCHANGED <<log, status>>
    /\ UNCHANGED <<RunInputs, ChainVars, commands, config, commandAction, shown>>

\* help, version, unknown command, or the command is resolved
Dispatch ==
    /\ pc = "dispatch"
    /\ LET command == parsed.command
           options == parsed.options
           found == LookupCommand(commands, aliases, command)
       IN  IF command = <<"help">>
           THEN LET target == IF Has(options, <<"command">>)
                              THEN options.v[<<"command">>]
                              ELSE Undefined
                    help == IF Truthy(target) /\ target.k = "str"
                            THEN displayCommandHelp(commands, log, shown, target.v)
                            ELSE [log |-> log, shown |-> displayHelp(shown)]
                IN  /\ log' = help.log
                    /\ shown' = help.shown
                    /\ pc' = "done"
                    /\ status' = "resolved"
                    /\ commandAction' = commandAction
           ELSE IF command = <<"version">>
           THEN /\ shown' = Append(shown, Show("version", <<>>))
                /\ pc' = "done"
                /\ status' = "resolved"
                /\ UNCHANGED <<log, commandAction>>
           ELSE IF found = NoCommand
           THEN /\ log' = Append(log, LogLine("error", "Unknown command"))
                /\ shown' = displayHelp(shown)
                /\ pc' = "done"
                /\ status' = "resolved"
                /\ commandAction' = commandAction
           ELSE /\ commandAction' = found
                /\ pc' = "validate"
                /\ UNCHANGED <<log, shown, status>>
    /\ UNCHANGED <<RunInputs, ChainVars, commands, config, parsed>>

\* commandAction.inputSchema.parse(options), then the entry of the wrapped handler
ValidateInput ==
    /\ pc = "validate"
    /\ LET validated == SchemaParse(commandAction.inputSchema, parsed.options)
       IN  IF InputAccepted(validated)
           THEN /\ IF commandAction.middleware = <<>>
                   THEN /\ currentCtx' = OriginalContext
                        /\ pc' = "handler"
                   ELSE /\ currentCtx' = Spread(OriginalContext)
                        /\ pc' = "chain"
                /\ mwIndex' = 1
                /\ UNCHANGED <<log, status>>
           ELSE /\ log' = InnerCatch(log, [k |-> "zod", v |-> validated.errors])
                /\ pc' = "done"
                /\ status' = "resolved"
                /\ UNCHANGED <<currentCtx, mwIndex>>
    /\ UNCHANGED <<RunInputs, commands, config, parsed, commandAction, shown,
                   mwTrace, handlerSaw, result>>

\* applyMiddleware(index) with a middleware at index: middleware.execute(...)
Middleware ==
    /\ pc = "chain"
    /\ ApplyTarget(mwIndex, commandAction.middleware) = "middleware"
    /\ \E behaviour \in MwBehaviours :
           LET id == commandAction.middleware[mwIndex]
               after == AfterMiddleware(behaviour)
           IN  /\ mwTrace' = Append(mwTrace, [id |-> id, did |-> behaviour, saw |-> currentCtx])
               /\ CASE after = "next" ->
                           /\ currentCtx' =
                                  NextCtx(currentCtx, NextOptions(id, behaviour, currentCtx))
                           /\ mwIndex' = mwIndex + 1
                           /\ UNCHANGED <<pc, result, log, status>>
                    [] after = "return" ->
                           /\ result' = StopResult(id)
                           /\ pc' = "output"
                           /\ UNCHANGED <<currentCtx, mwIndex, log, status>>
                    [] OTHER ->
                           /\ log' = InnerCatch(log, Thrown("Error"))
                           /\ pc' = "done"
                           /\ status' = "resolved"
                           /\ UNCHANGED <<currentCtx, mwIndex, result>>
    /\ UNCHANGED <<RunInputs, commands, config, parsed, commandAction, shown, handlerSaw>>

\* the terminal handler: handler(args), or handler({...args, context: currentCtx})
Handler ==
    /\ \/ pc = "handler"
       \/ /\ pc = "chain"
          /\ ApplyTarget(mwIndex, commandAction.middleware) = "handler"
    /\ handlerSaw' = Append(handlerSaw, currentCtx)
    /\ \E behaviour \in HandlerBehaviours :
           IF behaviour \in {"throw", "throwZod"}
           THEN /\ log' = InnerCatch(log,
                              IF behaviour = "throwZod"
                              THEN [k |-> "zod", v |-> {<<"thrown">>}]
                              ELSE Thrown("Error"))
                /\ pc' = "done"
                /\ status' = "resolved"
                /\ result' = result
           ELSE /\ result' = HandlerResult(behaviour)
                /\ pc' = "output"
                /\ UNCHANGED <<log, status>>
    /\ UNCHANGED <<RunInputs, commands, config, parsed, commandAction, shown,
                   currentCtx, mwIndex, mwTrace>>

\* an output check that also parses an undefined result
OutputCheckedAlways(schema, value) ==
    IF schema # NoSchema
    THEN SchemaParse(schema, value)
    ELSE [ok |-> TRUE, value |-> value, errors |-> {}]

\* if (commandAction.outputSchema && result !== undefined) outputSchema.parse(result)
OutputChecked(schema, value) ==
    IF schema # NoSchema /\ value # Undefined
    THEN SchemaParse(schema, value)
    ELSE [ok |-> TRUE, value |-> value, errors |-> {}]

\* the output check of run, and the end of the try block
ValidateOutput ==
    /\ pc = "output"
    /\ LET checked == OutputChecked(commandAction.outputSchema, result)
       IN  log' = IF checked.ok THEN log
                  ELSE InnerCatch(log, [k |-> "zod", v |-> checked.errors])
    /\ pc' = "done"
    /\ status' = "resolved"
    /\ UNCHANGED <<RunInputs, ChainVars, commands, config, parsed, commandAction, shown>>

----------------------------------------------------------------------------
(* The application the engine is run on, and the inputs *)

SeqsUpTo(S, n) == UNION { [1..m -> S] : m \in 0..n }

NameIsWorld == <<"-", "-", "name", "=", "World">>

NameFlag == <<"-", "-", "name">>

\* greet, with alias g, two middleware and an output schema
GreetCommand ==
    CommandDefinition(<<"greet">>, <<>>, <<"default">>, << <<"g">> >>,
        SObject((<<"name">> :> SString) @@ (<<"uppercase">> :> Optional(SBoolean))),
        SObject((<<"message">> :> SString)),
        <<"M1", "M2">>)

\* user create, a subcommand with the scoped alias c and one middleware
UserCreateCommand ==
    CommandDefinition(<<"user", ":", "create">>, <<"user">>, <<"default">>, << <<"c">> >>,
        SObject((<<"name">> :> Optional(SString))), NoSchema, <<"M1">>)

\* ping, without middleware, alias or output schema
PingCommand ==
    CommandDefinition(<<"ping">>, <<>>, <<"default">>, <<>>,
        SObject(<<>>), NoSchema, <<>>)

\* the registry after the application registered its commands
RegisteredCommands ==
    registerCommand(
        registerCommand(
            registerCommand(BuiltinCommands, GreetCommand),
            UserCreateCommand),
        PingCommand)

RunTokens ==
    { <<"greet">>, <<"g">>, <<"user">>, <<"create">>, <<"c">>, <<"ping">>,
      <<"plug">>, <<"help">>, <<"nope">>, HelpLong, HelpShort, VersionLong,
      VersionShort, NameIsWorld, NameFlag, <<"-", "-", "debug">> }

ArgTokens ==
    { <<"greet">>, <<"g">>, <<"user">>, <<"create">>, <<"help">>, <<"nope">>,
      <<"World">>, <<>>, <<"user", " ", "create">>,
      HelpLong, HelpShort, VersionLong, VersionShort,
      NameIsWorld, NameFlag, <<"-", "-", "name", "=", "a", "=", "b">>,
      <<"-", "-", "uppercase">>, <<"-", "-">> }

\* process.argv: the runtime, the script, then the arguments
Argv(args) == << <<"node">>, <<"cli">> >> \o args

RunArgvs ==
    { <<>>, << <<"node">> >> } \cup { Argv(args) : args \in SeqsUpTo(RunTokens, MaxRunArgs) }

ArgArgvs == { Argv(args) : args \in SeqsUpTo(ArgTokens, MaxArgs) }

\* z.object({ port: z.number(), debug: z.boolean().optional(),
\*            db: z.object({ host: z.string() }).nullable().optional() })
ConfigSchema ==
    SObject((<<"port">> :> SNumber)
         @@ (<<"debug">> :> Optional(SBoolean))
         @@ (<<"db">> :> Optional(Nullable(SObject((<<"host">> :> SString))))))

\* an object with port and db, each left out when given as Undefined
Layer(port, db) ==
    ObjV([key \in { x \in {<<"port">>, <<"db">>} :
                       IF x = <<"port">> THEN port # Undefined ELSE db # Undefined } |->
             IF key = <<"port">> THEN port ELSE db])

\* the objects one layer may hold: its own number for port, its own host
LayerObjects(n, host) ==
    { Layer(port, db) :
          port \in {Undefined, NumV(n)},
          db \in {Undefined, NullV, ObjV((<<"host">> :> StrV(<<host>>)))} }

EnvPrefix == <<"APP", "_">>

EnvEntry(key, value) == [key |-> key, value |-> value]

EnvVars ==
    { EnvEntry(<<"APP", "_", "PORT">>, <<"2">>),
      EnvEntry(<<"APP", "_", "PORT">>, <<"abc">>),
      EnvEntry(<<"APP", "_", "DB", "_", "HOST">>, <<"ehost">>),
      EnvEntry(<<"APP", "_", "DB">>, <<"off">>),
      EnvEntry(<<"APP", "_", "DEBUG">>, <<"TRUE">>),
      EnvEntry(<<"OTHER", "_", "PORT">>, <<"9">>) }

\* process.env: variables with distinct names, in some order
EnvLists ==
    { env \in SeqsUpTo(EnvVars, MaxEnv) :
          \A i, j \in 1..Len(env) : i # j => env[i].key # env[j].key }

\* a candidate file: missing, of an extension without loader, one whose loader
\* throws, or one that loads to an object
FileKind(kind, content) == [kind |-> kind, content |-> content]

FileKinds ==
    { FileKind("missing", Undefined), FileKind("noLoader", Undefined),
      FileKind("throws", Thrown("Error")) }
    \cup { FileKind("loads", content) : content \in LayerObjects(3, "fhost") }

DigitOf(i) == CHOOSE d \in Digits : DigitValue(d) = i

FilePath(i, file) ==
    <<"config", DigitOf(i), ".", IF file.kind = "noLoader" THEN "toml" ELSE "json">>

FileState(file) == [exists |-> file.kind # "missing", content |-> file.content]

\* a configured ConfigManager with the environment and the disk it reads
ConfigWorld(defaults, env, kinds) ==
    [configured |-> TRUE,
     mgr |-> [schema |-> ConfigSchema,
              configFiles |-> [i \in 1..Len(kinds) |-> FilePath(i, kinds[i])],
              envPrefix |-> EnvPrefix,
              defaults |-> defaults],
     world |-> [env |-> env,
                disk |-> [path \in { FilePath(i, kinds[i]) : i \in 1..Len(kinds) } |->
                             FileState(kinds[CHOOSE i \in 1..Len(kinds) :
                                                 FilePath(i, kinds[i]) = path])]]]

\* CliBuilder.configure was never called
NotConfigured ==
    [configured |-> FALSE,
     mgr |-> [schema |-> NoSchema, configFiles |-> <<>>, envPrefix |-> <<>>,
              defaults |-> EmptyObject],
     world |-> [env |-> <<>>, disk |-> <<>>]]

ConfigWorlds ==
    { ConfigWorld(defaults, env, kinds) :
          defaults \in LayerObjects(1, "dhost"),
          env \in EnvLists,
          kinds \in SeqsUpTo(FileKinds, MaxFiles) }

\* the configurations the engine is run under: none, one that validates, one
\* whose environment breaks validation, one whose defaults alone do not validate
RunConfigs ==
    { NotConfigured,
      ConfigWorld(Layer(NumV(1), Undefined), <<>>, <<>>),
      ConfigWorld(Layer(NumV(1), Undefined),
                  <<EnvEntry(<<"APP", "_", "PORT">>, <<"abc">>)>>, <<>>),
      ConfigWorld(Layer(Undefined, Undefined), <<>>, <<>>) }

----------------------------------------------------------------------------
(* Spec: one run of the engine *)

Init ==
    /\ argv \in RunArgvs
    /\ commands = RegisteredCommands
    /\ aliases = BuildAliases(<<>>, RegisteredCommands, 1)
    /\ cfg \in RunConfigs
    /\ cliArgs = EmptyObject
    /\ pluginsDir \in BOOLEAN
    /\ pc = "start"
    /\ config = Undefined
    /\ parsed = NoParse
    /\ commandAction = NoCommand
    /\ currentCtx = Undefined
    /\ mwIndex = 0
    /\ mwTrace = <<>>
    /\ handlerSaw = <<>>
    /\ result = Undefined
    /\ log = <<>>
    /\ shown = <<>>
    /\ status = "running"
    /\ NoBuilders

Next ==
    \/ InitializeConfig
    \/ InitializePlugins
    \/ ParseArguments
    \/ Dispatch
    \/ ValidateInput
    \/ Middleware
    \/ Handler
    \/ ValidateOutput

Spec == Init /\ [][Next]_vars

----------------------------------------------------------------------------
(* SpecArgs: the tokenizer alone, on every argument vector *)

InitArgs ==
    /\ argv \in ArgArgvs
    /\ commands = RegisteredCommands
    /\ aliases = BuildAliases(<<>>, RegisteredCommands, 1)
    /\ cfg = NotConfigured
    /\ cliArgs = EmptyObject
    /\ pluginsDir = FALSE
    /\ pc = "start"
    /\ config = Undefined
    /\ parsed = NoParse
    /\ commandAction = NoCommand
    /\ currentCtx = Undefined
    /\ mwIndex = 0
    /\ mwTrace = <<>>
    /\ handlerSaw = <<>>
    /\ result = Undefined
    /\ log = <<>>
    /\ shown = <<>>
    /\ status = "running"
    /\ NoBuilders

Tokenize ==
    /\ pc = "start"
    /\ parsed' = parseArgs(argv, aliases)
    /\ pc' = "parsed"
    /\ UNCHANGED <<RunInputs, ChainVars, commands, config, commandAction, log,
                   shown, status>>

NextArgs == Tokenize

SpecArgs == InitArgs /\ [][NextArgs]_vars

----------------------------------------------------------------------------
(* SpecConfig: loadConfig alone, on every combination of the four layers *)

InitConfig ==
    /\ argv = <<>>
    /\ commands = <<>>
    /\ aliases = <<>>
    /\ cfg \in ConfigWorlds
    /\ cliArgs \in LayerObjects(4, "chost") \cup {Layer(Undefined, EmptyObject)}
    /\ pluginsDir = FALSE
    /\ pc = "start"
    /\ config = Undefined
    /\ parsed = NoParse
    /\ commandAction = NoCommand
    /\ currentCtx = Undefined
    /\ mwIndex = 0
    /\ mwTrace = <<>>
    /\ handlerSaw = <<>>
    /\ result = Undefined
    /\ log = <<>>
    /\ shown = <<>>
    /\ status = "running"
    /\ NoBuilders

LoadConfig ==
    /\ pc = "start"
    /\ LET loaded == loadConfig(cfg.mgr, cfg.world, cliArgs)
       IN  /\ config' = loaded.value
           /\ log' = loaded.log
           /\ pc' = loaded.outcome
    /\ UNCHANGED <<RunInputs, ChainVars, commands, parsed, commandAction, shown,
                   status>>

NextConfig == LoadConfig

SpecConfig == InitConfig /\ [][NextConfig]_vars

----------------------------------------------------------------------------
(* C1: precedence of the configuration layers (under SpecConfig) *)

\* the value at a key path of a keyed structure, Undefined where there is none
RECURSIVE GetPath(_, _)
GetPath(val, path) ==
    IF path = <<>> THEN val
    ELSE IF Has(val, path[1]) THEN GetPath(val.v[path[1]], Tail(path))
    ELSE Undefined

\* the leaf keys the schema accepts
ConfigKeys == { <<<<"port">>>>, <<<<"debug">>>>, <<<<"db">>, <<"host">>>> }

EnvLayer ==
    LET fromEnv == loadFromEnv(cfg.mgr.envPrefix, cfg.world.env)
    IN  IF IsThrown(fromEnv) THEN EmptyObject ELSE fromEnv

FileLayer == loadFromFiles(cfg.mgr.configFiles, cfg.world.disk).config

\* the four layers, the highest precedence first
ConfigLayers == <<cliArgs, FileLayer, EnvLayer, cfg.mgr.defaults>>

\* the layer holds a value at K
Supplies(layer, K) == GetPath(layer, K) # Undefined

\* the layer holds, at a key enclosing K, a value that is no keyed structure
Replaces(layer, K) ==
    \E n \in 1..(Len(K) - 1) :
        LET above == GetPath(layer, SubSeq(K, 1, n))
        IN  above # Undefined /\ above.k # "obj"

FirstOf(S) == CHOOSE i \in S : \A j \in S : i <= j

\* the value of the highest layer that supplies K
ClaimedValue(K) ==
    LET supplying == { i \in 1..4 : Supplies(ConfigLayers[i], K) }
    IN  IF supplying = {} THEN Undefined
        ELSE GetPath(ConfigLayers[FirstOf(supplying)], K)

\* the value of the highest layer that supplies K or replaces what encloses K
DecidedValue(K) ==
    LET deciding == { i \in 1..4 : \/ Supplies(ConfigLayers[i], K)
                                   \/ Replaces(ConfigLayers[i], K) }
    IN  IF deciding = {} THEN Undefined
        ELSE GetPath(ConfigLayers[FirstOf(deciding)], K)

----------------------------------------------------------------------------
(* C2, C3: the middleware chain (under Spec) *)

\* every middleware entered so far appended its id and called next once
AllAppended == \A i \in 1..Len(mwTrace) : mwTrace[i].did = "append"

\* C2: when each middleware of a command appends its id to the log of the
\* context and calls next once, the middleware are entered in definition
\* order, the terminal handler is invoked exactly once, after all of them, and
\* the context it observes holds the log [M1, ..., Mn]
C2_MiddlewareOrder ==
    (mwTrace # <<>> /\ AllAppended) =>
        /\ Len(mwTrace) <= Len(commandAction.middleware)
        /\ \A i \in 1..Len(mwTrace) : mwTrace[i].id = commandAction.middleware[i]
        /\ Len(handlerSaw) <= 1
        /\ handlerSaw # <<>> =>
               /\ Len(mwTrace) = Len(commandAction.middleware)
               /\ LogOf(handlerSaw[1]) = commandAction.middleware
        /\ pc \in {"output", "done"} => Len(handlerSaw) = 1

\* greet ran with M1 and M2 both appending, and its handler saw [M1, M2]
C2_Witness ==
    /\ pc = "done"
    /\ commandAction = GreetCommand
    /\ Len(mwTrace) = 2
    /\ AllAppended
    /\ Len(handlerSaw) = 1
    /\ LogOf(handlerSaw[1]) = <<"M1", "M2">>

\* C3: when a middleware returns without calling next, no later middleware
\* is entered, the terminal handler is not invoked, and the result of the
\* invocation is the one that middleware produced
C3_ShortCircuit ==
    \A i \in 1..Len(mwTrace) :
        mwTrace[i].did = "stop" =>
            /\ i = Len(mwTrace)
            /\ handlerSaw = <<>>
            /\ result = StopResult(mwTrace[i].id)
            /\ pc \in {"output", "done"}

\* M1 of greet returned without calling next: M2 and the handler never ran
C3_Witness ==
    /\ pc = "done"
    /\ commandAction = GreetCommand
    /\ Len(mwTrace) = 1
    /\ mwTrace[1].id = "M1"
    /\ mwTrace[1].did = "stop"
    /\ handlerSaw = <<>>
    /\ result = StopResult("M1")

----------------------------------------------------------------------------
(* C4, C5, C6, C10: Devtool.run (under Spec) *)

\* an argument is one of the help flags, at any position from index 2 on
HelpFlagGiven == \E i \in 3..Len(argv) : argv[i] \in {HelpLong, HelpShort}

VersionFlagGiven == \E i \in 3..Len(argv) : argv[i] \in {VersionLong, VersionShort}

Logged(line) == \E i \in 1..Len(log) : log[i] = line

\* the command path the tokenizer found is the name of no registered command
\* and no alias of the table
PathUnknown ==
    /\ parsed # NoParse
    /\ ~MapHas(commands, parsed.command)
    /\ parsed.command \notin DOMAIN aliases

\* C4: a run whose arguments hold no help or version flag and whose command
\* path is no registered name and no alias logs "Unknown command", renders the
\* general help, invokes no middleware and no handler, and resolves
C4_UnknownCommand ==
    (pc = "done" /\ ~HelpFlagGiven /\ ~VersionFlagGiven /\ PathUnknown) =>
        /\ Logged(LogLine("error", "Unknown command"))
        /\ shown = <<Show("help", <<>>)>>
        /\ commandAction = NoCommand
        /\ mwTrace = <<>>
        /\ handlerSaw = <<>>
        /\ status = "resolved"

\* `nope` names nothing: the run ended with the error and the general help
C4_Witness ==
    /\ pc = "done"
    /\ argv = Argv(<< <<"nope">> >>)
    /\ PathUnknown
    /\ Logged(LogLine("error", "Unknown command"))
    /\ shown = <<Show("help", <<>>)>>

\* the outcome of the input schema on the tokenized options
InputCheck == SchemaParse(commandAction.inputSchema, parsed.options)

\* the three-part report of rejected input, on consecutive lines
InputErrorLogged ==
    \E i \in 1..(Len(log) - 2) :
        /\ log[i] = LogLine("error", "Invalid command arguments:")
        /\ log[i + 1] = FieldErrorLines(InputCheck.errors)
        /\ log[i + 2] = LogLine("info", "Run with --help for usage information.")

\* C5: a middleware or the handler of the resolved command is invoked only
\* if the tokenized options passed the input schema of the command; when they
\* did not, the field errors and the --help hint are logged and neither a
\* middleware nor the handler runs
C5_InputGate ==
    /\ (mwTrace # <<>> \/ handlerSaw # <<>>) => InputCheck.ok
    /\ (pc = "done" /\ commandAction # NoCommand /\ ~InputCheck.ok) =>
           /\ InputErrorLogged
           /\ mwTrace = <<>>
           /\ handlerSaw = <<>>
           /\ result = Undefined

\* greet without --name: the input was rejected and reported, nothing ran
C5_Witness ==
    /\ pc = "done"
    /\ commandAction = GreetCommand
    /\ ~InputCheck.ok
    /\ InputErrorLogged
    /\ mwTrace = <<>>
    /\ handlerSaw = <<>>

LastLogged == IF log = <<>> THEN LogLine("none", "") ELSE log[Len(log)]

\* C6: run never rejects: whatever configuration loading, plugin loading,
\* input validation, the middleware, the handler and output validation do,
\* the promise is not rejected, a finished run has resolved, and a failure
\* that ended the run is the last line the logger was given
C6_RunNeverRejects ==
    /\ status \in {"running", "resolved"}
    /\ pc = "done" => status = "resolved"
    /\ (pc = "done" /\ parsed = NoParse) =>
           LastLogged = LogLine("error", "Unexpected error")
    /\ (mwTrace # <<>> /\ mwTrace[Len(mwTrace)].did = "throw") =>
           /\ pc = "done"
           /\ LastLogged = LogLine("error", "Error executing command")

\* the handler threw an Error: it was logged and the run resolved
C6_Witness ==
    /\ pc = "done"
    /\ status = "resolved"
    /\ handlerSaw # <<>>
    /\ result = Undefined
    /\ LastLogged = LogLine("error", "Error executing command")

\* the failure of loading the configuration was logged and the run resolved
C6_WitnessConfig ==
    /\ pc = "done"
    /\ status = "resolved"
    /\ parsed = NoParse
    /\ Len(argv) >= 2
    /\ LastLogged = LogLine("error", "Unexpected error")

C10_WitnessBoth ==
    /\ pc = "done"
    /\ argv = Argv(<< VersionShort, HelpLong >>)
    /\ shown = <<Show("help", <<>>)>>

----------------------------------------------------------------------------
(* C7, C8: the tokenizer (under SpecArgs) *)

\* the arguments after the runtime and the script
Arguments == [i \in 1..(Len(argv) - 2) |-> argv[i + 2]]

OptionToken(token) == Len(token) >= 2 /\ token[1] = "-" /\ token[2] = "-"

\* the length of the maximal run of leading arguments that are no option tokens
LeadingRun ==
    CHOOSE n \in 0..Len(Arguments) :
        /\ \A i \in 1..n : ~OptionToken(Arguments[i])
        /\ n = Len(Arguments) \/ OptionToken(Arguments[n + 1])

\* no help or version flag among the arguments, and the tokenizer has run
PlainArguments ==
    /\ pc = "parsed"
    /\ Len(argv) >= 3
    /\ ~HelpFlagGiven
    /\ ~VersionFlagGiven

\* the text of an option token after its two dashes
FlagText(token) == [i \in 1..(Len(token) - 2) |-> token[i + 2]]

HasEquals(text) == \E j \in 1..Len(text) : text[j] = "="

FirstEquals(text) ==
    CHOOSE j \in 1..Len(text) : text[j] = "=" /\ \A k \in 1..(j - 1) : text[k] # "="

\* the key an option token names: up to its first "=", or all of it
KeyOf(token) ==
    LET text == FlagText(token)
    IN  IF HasEquals(text) THEN SubSeq(text, 1, FirstEquals(text) - 1) ELSE text

\* the value the option token at index i is to yield
ValueOf(i) ==
    LET text == FlagText(Arguments[i])
    IN  IF HasEquals(text)
        THEN StrV(SubSeq(text, FirstEquals(text) + 1, Len(text)))
        ELSE IF i = Len(Arguments) \/ OptionToken(Arguments[i + 1])
        THEN TrueV
        ELSE StrV(Arguments[i + 1])

\* the indexes of the option tokens: every "--" token is one, because a
\* consumed value never starts with "--"
OptionIndexes == { i \in 1..Len(Arguments) : OptionToken(Arguments[i]) }

\* C7: without help or version flag, each token --key=value yields the
\* string value under key, each --key that is last or followed by a "--"
\* token yields true, each --key followed by another token yields that token
\* as a string (the last token of a key deciding); the options hold no other
\* key, and every value is a string or true
C7_OptionTokens ==
    PlainArguments =>
        /\ DOMAIN parsed.options.v = { KeyOf(Arguments[i]) : i \in OptionIndexes }
        /\ \A i \in OptionIndexes :
               (\A j \in OptionIndexes :
                    KeyOf(Arguments[j]) = KeyOf(Arguments[i]) => j <= i)
               => parsed.options.v[KeyOf(Arguments[i])] = ValueOf(i)
        /\ \A key \in DOMAIN parsed.options.v :
               parsed.options.v[key].k = "str" \/ parsed.options.v[key] = TrueV

\* `greet --name=a=b` was tokenized
C7_Witness ==
    /\ pc = "parsed"
    /\ argv = Argv(<< <<"greet">>, <<"-", "-", "name", "=", "a", "=", "b">> >>)
    /\ parsed.command = <<"greet">>

\* the leading arguments joined with ":"
RECURSIVE ColonJoined(_)
ColonJoined(tokens) ==
    IF tokens = <<>> THEN <<>>
    ELSE IF Len(tokens) = 1 THEN tokens[1]
    ELSE tokens[1] \o <<":">> \o ColonJoined(Tail(tokens))

JoinedPath == ColonJoined(SubSeq(Arguments, 1, LeadingRun))

\* C8: without help or version flag, the command path is the maximal run of
\* leading tokens that do not start with "--", joined with ":" in order (the
\* command returned is that path, or the name the alias table holds for it)
C8_CommandPath ==
    (PlainArguments /\ ~(LeadingRun > 1 /\ Arguments[1] = <<"help">>)) =>
        parsed.command = IF JoinedPath \in DOMAIN aliases
                         THEN aliases[JoinedPath]
                         ELSE JoinedPath

\* one argument that holds a space was tokenized
C8_Witness ==
    /\ pc = "parsed"
    /\ argv = Argv(<< <<"user", " ", "create">> >>)
    /\ parsed.command = <<"user", ":", "create">>

----------------------------------------------------------------------------
(* C9: help with a target (under Spec) *)

\* the run is over, without flags, and its leading arguments are help and more
HelpWithTarget ==
    /\ pc = "done"
    /\ parsed # NoParse
    /\ ~HelpFlagGiven
    /\ ~VersionFlagGiven
    /\ LeadingRun > 1
    /\ Arguments[1] = <<"help">>

HelpTarget == ColonJoined(SubSeq(Arguments, 2, LeadingRun))

\* C9: when the leading path segments are help followed by further segments,
\* the tokenizer returns "help" with options.command the remaining segments
\* in internal form, and the engine shows the help of that command (of a
\* registered one) instead of taking the whole path as a command name
C9_HelpTarget ==
    HelpWithTarget =>
        /\ parsed = [command |-> <<"help">>,
                     options |-> Put(EmptyObject, <<"command">>, StrV(HelpTarget))]
        /\ MapHas(commands, HelpTarget) =>
               shown = <<Show("commandHelp", HelpTarget)>>
        /\ ~Logged(LogLine("error", "Unknown command"))

\* `help greet` ran: the whole path was taken as a command name
C9_Witness ==
    /\ pc = "done"
    /\ argv = Argv(<< <<"help">>, <<"greet">> >>)
    /\ parsed.command = <<"help", ":", "greet">>
    /\ Logged(LogLine("error", "Unknown command"))
    /\ shown = <<Show("help", <<>>)>>

----------------------------------------------------------------------------
(* C11: too few arguments (under Spec) *)

\* loading the configuration throws out of initialize: the defaults alone do
\* not validate either
InitializeThrows ==
    /\ cfg.configured
    /\ loadConfig(cfg.mgr, cfg.world, EmptyObject).outcome = "throw"

\* C11: when the argument vector holds fewer than two elements after the
\* program name (fewer than three in all), tokenizing yields "help" with
\* empty options and the engine renders the general help
C11_TooFewArguments ==
    (pc = "done" /\ Len(argv) < 3 /\ ~InitializeThrows) =>
        /\ parsed = [command |-> <<"help">>, options |-> EmptyObject]
        /\ shown = <<Show("help", <<>>)>>

\* the same for a vector that holds the runtime and the script and no more
C11_RuntimeAndScript ==
    (pc = "done" /\ Len(argv) = 2 /\ ~InitializeThrows) =>
        /\ parsed = [command |-> <<"help">>, options |-> EmptyObject]
        /\ shown = <<Show("help", <<>>)>>

\* run(["node"]) ended: nothing was tokenized, nothing shown, an error logged
C11_Witness ==
    /\ pc = "done"
    /\ argv = << <<"node">> >>
    /\ ~InitializeThrows
    /\ parsed = NoParse
    /\ shown = <<>>
    /\ LastLogged = LogLine("error", "Unexpected error")

----------------------------------------------------------------------------
(* SpecDispatch: one run of the engine over several registries *)

\* status, whose alias is the name of another command
StatusCommand ==
    CommandDefinition(<<"status">>, <<>>, <<"default">>, << <<"ping">> >>,
        SObject(<<>>), NoSchema, <<>>)

\* a second definition registered under the name ping
PingAgainCommand ==
    CommandDefinition(<<"ping">>, <<>>, <<"default">>, <<>>,
        SObject(<<>>), NoSchema, <<"M2">>)

\* the registries an engine is constructed with: the application's commands,
\* the same with an alias that equals a registered name, the same with a name
\* registered twice
Applications ==
    { RegisteredCommands,
      registerCommand(RegisteredCommands, StatusCommand),
      registerCommand(RegisteredCommands, PingAgainCommand) }

DispatchTokens ==
    { <<"greet">>, <<"g">>, <<"user">>, <<"create">>, <<"c">>, <<"ping">>,
      <<"status">>, <<"p">>, NameIsWorld }

DispatchArgvs == { Argv(args) : args \in SeqsUpTo(DispatchTokens, MaxRunArgs) }

InitDispatch ==
    /\ argv \in DispatchArgvs
    /\ commands \in Applications
    /\ aliases = BuildAliases(<<>>, commands, 1)
    /\ cfg = NotConfigured
    /\ cliArgs = EmptyObject
    /\ pluginsDir \in BOOLEAN
    /\ pc = "start"
    /\ config = Undefined
    /\ parsed = NoParse
    /\ commandAction = NoCommand
    /\ currentCtx = Undefined
    /\ mwIndex = 0
    /\ mwTrace = <<>>
    /\ handlerSaw = <<>>
    /\ result = Undefined
    /\ log = <<>>
    /\ shown = <<>>
    /\ status = "running"
    /\ NoBuilders

SpecDispatch == InitDispatch /\ [][Next]_vars

----------------------------------------------------------------------------
(* C12, C13: aliases and direct names (under SpecDispatch) *)

\* the commands the engine was constructed with: all but what a plugin added
Constructed == SelectSeq(commands, LAMBDA d : d # PluginCommand)

\* the path under which an alias of a command is declared to resolve
ScopedAlias(command, alias) ==
    IF command.parent = <<>> THEN alias ELSE command.parent \o <<":">> \o alias

\* the commands of the constructed registry that declare the path as an alias
DeclaringCommands(path) ==
    { i \in 1..Len(Constructed) :
          \E j \in 1..Len(Constructed[i].aliases) :
              ScopedAlias(Constructed[i], Constructed[i].aliases[j]) = path }

\* the tokenizer has run on arguments that hold no help or version flag
TokenizedPlain ==
    /\ parsed # NoParse
    /\ Len(argv) >= 3
    /\ ~HelpFlagGiven
    /\ ~VersionFlagGiven

\* the options the option tokens are to yield
TokenizedOptions ==
    ObjV([key \in { KeyOf(Arguments[i]) : i \in OptionIndexes } |->
             ValueOf(CHOOSE i \in OptionIndexes :
                         /\ KeyOf(Arguments[i]) = key
                         /\ \A j \in OptionIndexes :
                                KeyOf(Arguments[j]) = key => j <= i)])

\* the run is past the lookup of the command
Dispatched == pc \in {"validate", "chain", "handler", "output", "done"}

C12_WitnessBare ==
    /\ pc = "done"
    /\ argv = Argv(<< <<"c">> >>)
    /\ commandAction = NoCommand
    /\ Logged(LogLine("error", "Unknown command"))

\* C13: a path that is a direct key of the registry always dispatches the
\* definition last registered under that name; the alias table is consulted
\* only for a path that is no direct key, and then for one hop
C13_DirectNameFirst ==
    (TokenizedPlain /\ Dispatched) =>
        IF MapHas(commands, JoinedPath)
        THEN commandAction = MapGet(commands, JoinedPath)
        ELSE IF JoinedPath \in DOMAIN aliases
        THEN commandAction = MapGet(commands, aliases[JoinedPath])
        ELSE commandAction = NoCommand

\* the same, where no alias of the table equals a registered name
C13_WithoutShadowing ==
    (\A path \in DOMAIN aliases : ~MapHas(commands, path)) => C13_DirectNameFirst

\* `ping` ran status: the alias ping of status shadows the command ping
C13_Witness ==
    /\ pc = "done"
    /\ argv = Argv(<< <<"ping">> >>)
    /\ MapHas(commands, <<"ping">>)
    /\ commandAction = StatusCommand
    /\ Len(handlerSaw) = 1

\* `ping` ran the definition registered last under that name
C13_WitnessOverwrite ==
    /\ pc = "done"
    /\ argv = Argv(<< <<"ping">> >>)
    /\ commandAction = PingAgainCommand
    /\ Len(handlerSaw) = 1

----------------------------------------------------------------------------
(* The fluent builders: ActionBuilder and CliBuilder.add / CliBuilder.use.  *)
(* A builder is the record of its fields; `builders` is the heap, a builder *)
(* being known by its position in it, so that a method returning `this` and *)
(* a method returning a new object are told apart.                          *)

\* calls made after the first command was added
MaxCalls == 3

\* new ActionBuilder(name, description, parent); inputSchema NoSchema is null
ActionBuilder(name, parent) ==
    [name |-> name, parent |-> parent, inputSchema |-> NoSchema,
     outputSchema |-> NoSchema, metadata |-> EmptyObject, aliases |-> <<>>,
     examples |-> <<>>, middleware |-> <<>>, cli |-> FALSE]

\* a builder that starts without the middleware of the one it is made from
CopyNoMiddleware(b) == <<>>

\* [...this.middlewareFunctions]
CopyMiddleware(b) == b.middleware

\* input(schema): the fields of the new builder
input(b, schema) ==
    [b EXCEPT !.inputSchema = schema, !.middleware = CopyMiddleware(b)]

\* output(schema): the fields of the new builder
output(b, schema) ==
    [b EXCEPT !.outputSchema = schema, !.middleware = CopyMiddleware(b)]

\* use(middlewareFn): the fields of the new builder
use(b, mw) == [b EXCEPT !.middleware = Append(CopyMiddleware(b), mw)]

\* meta(metadata): this.commandMetadata = {...this.commandMetadata, ...metadata}
meta(b, metadata) == [b EXCEPT !.metadata = ShallowMerge(@, metadata)]

\* examples(examples): this.commandExamples = examples
examples(b, exampleList) == [b EXCEPT !.examples = exampleList]

\* aliases(aliases): this.commandAliases = aliases
commandAliases(b, aliasList) == [b EXCEPT !.aliases = aliasList]

\* a subcommand named by its own name alone
BareName(b, command) == command

\* const fullName = this.name ? `${this.name}:${command}` : command
fullName(b, command) ==
    IF b.name # <<>> THEN b.name \o <<":">> \o command ELSE command

\* the argument of sub: a string, or a config with a command and maybe a group
SubString(command) == [form |-> "string", command |-> command, group |-> <<>>]

SubConfig(command, group) == [form |-> "config", command |-> command, group |-> group]

\* const { command, group = "default" } = nameOrConfig; "default" for a string
SubGroup(nameOrConfig) ==
    IF nameOrConfig.form = "config" /\ nameOrConfig.group # <<>>
    THEN nameOrConfig.group
    ELSE <<"default">>

\* sub(nameOrConfig): the fields of the child builder
sub(b, nameOrConfig) ==
    [ActionBuilder(fullName(b, nameOrConfig.command), b.name) EXCEPT
        !.cli = b.cli,
        !.metadata = ObjV((<<"group">> :> StrV(SubGroup(nameOrConfig)))),
        !.middleware = CopyMiddleware(b)]

\* an action that accepts every builder
ActionNeverThrows(b) == ""

\* the Error action throws before it builds the definition, "" if none
ActionError(b) ==
    IF b.name = <<>> THEN "Command name is required"
    ELSE IF b.inputSchema = NoSchema THEN "Command input schema is required"
    ELSE ""

\* metadata.group of a definition, <<>> when there is none
GroupOf(metadata) ==
    IF Has(metadata, <<"group">>) THEN metadata.v[<<"group">>].v ELSE <<>>

\* the CommandDefinition action assembles
action(b) ==
    [CommandDefinition(b.name, b.parent, GroupOf(b.metadata), b.aliases,
                       b.inputSchema, b.outputSchema, b.middleware)
        EXCEPT !.metadata = IF DOMAIN b.metadata.v # {} THEN b.metadata
                            ELSE Undefined,
               !.examples = b.examples]

\* this.globalMiddleware.forEach(m => builder = builder.use(m))
RECURSIVE UseAll(_, _)
UseAll(b, middleware) ==
    IF middleware = <<>> THEN b
    ELSE UseAll(use(b, Head(middleware)), Tail(middleware))

\* the argument of add: a command and maybe a group
AddConfig(command, group) == [command |-> command, group |-> group]

\* CliBuilder.add(config), with const { command, group = "default" } = config:
\* the builder it returns
add(global, addConfig) ==
    UseAll(meta([ActionBuilder(addConfig.command, <<>>) EXCEPT !.cli = TRUE],
                ObjV((<<"group">> :>
                         StrV(IF addConfig.group # <<>> THEN addConfig.group
                              ELSE <<"default">>)))),
           global)

\* what the last action() on a builder came to
NotFinalized == [k |-> "none", v |-> <<>>]

Threw(message) == [k |-> "threw", v |-> message]

Returned(definition) == [k |-> "returned", v |-> definition]

\* the call that returned a builder: the method, the builder it was called on
\* (0 for CliBuilder.add), its argument (a record), the middleware the builder
\* it was called on held, the builder as it was returned, and the global
\* middleware registered by then
Call(method, on, arg, held, made, global) ==
    [call |-> method, on |-> on, arg |-> arg, held |-> held, made |-> made,
     global |-> global]

\* a heap where the method also leaves its result in the builder it was called on
AllocateOverReceiver(heap, i, b) == Append([heap EXCEPT ![i] = b], b)

\* const newBuilder = new ActionBuilder(); ...; return newBuilder
Allocate(heap, i, b) == Append(heap, b)

\* this.field = ...; return this
Assign(heap, i, b) == [heap EXCEPT ![i] = b]

AddConfigs ==
    { AddConfig(<<>>, <<>>), AddConfig(<<"user">>, <<>>),
      AddConfig(<<"user">>, <<"admin">>) }

GlobalMiddlewares == { "G" }

UseMiddlewares == { "M1" }

InputSchemas == { SObject((<<"name">> :> SString)) }

OutputSchemas == { SObject((<<"message">> :> SString)) }

MetaArgs ==
    { ObjV((<<"group">> :> StrV(<<"admin">>))), ObjV((<<"hidden">> :> TrueV)) }

ExampleArgs == { << ObjV((<<"name">> :> StrV(<<"World">>))) >> }

AliasArgs == { << <<"c">> >> }

SubArgs ==
    { SubString(<<"create">>), SubConfig(<<"create">>, <<>>),
      SubConfig(<<"create">>, <<"ops">>) }

RunVars == <<argv, cfg, cliArgs, pluginsDir, aliases, pc, config, parsed,
             commandAction, ChainVars, log, shown, status>>

\* one more call is made
Counted ==
    /\ callCount < MaxCalls
    /\ callCount' = callCount + 1

\* what a call that returns a new builder does to the heap
NewBuilder(method, on, arg, made) ==
    /\ builders' = Allocate(builders, on, made)
    /\ lineage' = Append(lineage,
                     Call(method, on, arg,
                          IF on = 0 THEN <<>> ELSE builders[on].middleware, made,
                          globalMiddleware))
    /\ finalized' = Append(finalized, NotFinalized)
    /\ UNCHANGED <<RunVars, commands, globalMiddleware>>

\* what a call that returns the builder it was called on does to the heap
SameBuilder(on, made) ==
    /\ builders' = Assign(builders, on, made)
    /\ UNCHANGED <<RunVars, commands, globalMiddleware, lineage, finalized>>

\* cli.use(middleware)
CliUse ==
    /\ Counted
    /\ \E mw \in GlobalMiddlewares : globalMiddleware' = Append(globalMiddleware, mw)
    /\ UNCHANGED <<RunVars, commands, builders, lineage, finalized>>

\* cli.add(config)
Add ==
    /\ Counted
    /\ \E addConfig \in AddConfigs :
           NewBuilder("add", 0, addConfig, add(globalMiddleware, addConfig))

\* b.input(schema)
Input ==
    /\ Counted
    /\ \E i \in 1..Len(builders), schema \in InputSchemas :
           NewBuilder("input", i, schema, input(builders[i], schema))

\* b.output(schema)
Output ==
    /\ Counted
    /\ \E i \in 1..Len(builders), schema \in OutputSchemas :
           NewBuilder("output", i, schema, output(builders[i], schema))

\* b.use(middleware)
Use ==
    /\ Counted
    /\ \E i \in 1..Len(builders), mw \in UseMiddlewares :
           NewBuilder("use", i, [middleware |-> mw], use(builders[i], mw))

\* b.sub(nameOrConfig)
Sub ==
    /\ Counted
    /\ \E i \in 1..Len(builders), nameOrConfig \in SubArgs :
           NewBuilder("sub", i, nameOrConfig, sub(builders[i], nameOrConfig))

\* b.meta(metadata)
Meta ==
    /\ Counted
    /\ \E i \in 1..Len(builders), metadata \in MetaArgs :
           SameBuilder(i, meta(builders[i], metadata))

\* b.examples(examples)
Examples ==
    /\ Counted
    /\ \E i \in 1..Len(builders), exampleList \in ExampleArgs :
           SameBuilder(i, examples(builders[i], exampleList))

\* b.aliases(aliases)
Aliases ==
    /\ Counted
    /\ \E i \in 1..Len(builders), aliasList \in AliasArgs :
           SameBuilder(i, commandAliases(builders[i], aliasList))

\* b.action(handler)
Action ==
    /\ Counted
    /\ \E i \in 1..Len(builders) :
           /\ IF ActionError(builders[i]) # ""
              THEN /\ finalized' = [finalized EXCEPT ![i] = Threw(ActionError(builders[i]))]
                   /\ UNCHANGED commands
              ELSE /\ finalized' = [finalized EXCEPT ![i] = Returned(action(builders[i]))]
                   /\ commands' = IF builders[i].cli
                                  THEN registerCommand(commands, action(builders[i]))
                                  ELSE commands
           /\ UNCHANGED <<RunVars, builders, globalMiddleware, lineage>>

\* createCli(), cli.use(G) or not, then cli.add(config): the registry holds
\* help and version, the heap the builder add returned
InitBuilder ==
    /\ argv = <<>>
    /\ commands = BuiltinCommands
    /\ aliases = <<>>
    /\ cfg = NotConfigured
    /\ cliArgs = EmptyObject
    /\ pluginsDir = FALSE
    /\ pc = "start"
    /\ config = Undefined
    /\ parsed = NoParse
    /\ commandAction = NoCommand
    /\ currentCtx = Undefined
    /\ mwIndex = 0
    /\ mwTrace = <<>>
    /\ handlerSaw = <<>>
    /\ result = Undefined
    /\ log = <<>>
    /\ shown = <<>>
    /\ status = "running"
    /\ globalMiddleware \in { <<>> } \cup { <<mw>> : mw \in GlobalMiddlewares }
    /\ \E addConfig \in AddConfigs :
          /\ builders = << add(globalMiddleware, addConfig) >>
          /\ lineage = << Call("add", 0, addConfig, <<>>,
                               add(globalMiddleware, addConfig),
                               globalMiddleware) >>
    /\ finalized = << NotFinalized >>
    /\ callCount = 0

NextBuilder ==
    \/ CliUse
    \/ Add
    \/ Input
    \/ Output
    \/ Use
    \/ Sub
    \/ Meta
    \/ Examples
    \/ Aliases
    \/ Action

SpecBuilder == InitBuilder /\ [][NextBuilder]_vars

----------------------------------------------------------------------------
(* C14: subcommand naming (under SpecBuilder) *)

Builders == 1..Len(builders)

\* the methods that return a copy of the builder they are called on
Copies == {"input", "output", "use"}

\* the builder add or sub returned that the chain of builder i started from
RECURSIVE ChainRoot(_)
ChainRoot(i) ==
    IF lineage[i].call \in Copies THEN ChainRoot(lineage[i].on) ELSE i

\* builder i is a.sub(x), or a copy made in a chain from it
FromSub(i) == lineage[ChainRoot(i)].call = "sub"

\* the call a.sub(x) the chain of builder i started with
SubCall(i) == lineage[ChainRoot(i)]

\* N : x
ChildName(i) ==
    builders[SubCall(i).on].name \o <<":">> \o SubCall(i).arg.command

\* "default" unless the config form supplies a group
ChildGroup(i) ==
    IF SubCall(i).arg.form = "config" /\ SubCall(i).arg.group # <<>>
    THEN SubCall(i).arg.group
    ELSE <<"default">>

\* no meta() was called in the chain of builder i: a call of meta adds a key
\* or sets a group that no sub sets
MetaUntouched(i) == builders[i].metadata = SubCall(i).made.metadata

C14_WitnessConfig ==
    \E i \in Builders :
        /\ FromSub(i)
        /\ SubCall(i).arg = SubConfig(<<"create">>, <<"ops">>)
        /\ finalized[i].k = "returned"
        /\ finalized[i].v.group = <<"ops">>
        /\ MapGet(commands, <<"user", ":", "create">>) = finalized[i].v

----------------------------------------------------------------------------
(* C15: subcommand middleware inheritance (under SpecBuilder) *)

\* the middleware given to use() in the chain from its root to builder i
RECURSIVE UsesAlong(_)
UsesAlong(i) ==
    IF lineage[i].call \notin Copies THEN <<>>
    ELSE UsesAlong(lineage[i].on)
             \o (IF lineage[i].call = "use" THEN <<lineage[i].arg.middleware>> ELSE <<>>)

\* C15: the middleware sequence of a builder in a chain from a.sub(x), and of
\* the definition finalized from it, is the sequence a held when sub was
\* called followed by the middleware of the use() calls of the chain, in
\* order; nothing called on a or on another builder afterwards changes it
C15_MiddlewareInheritance ==
    \A i \in Builders :
        FromSub(i) =>
            /\ builders[i].middleware = SubCall(i).held \o UsesAlong(i)
            /\ finalized[i].k = "returned" =>
                   finalized[i].v.middleware = SubCall(i).held \o UsesAlong(i)

\* a command was finalized from a.sub(x), a holding the global middleware
C15_Witness ==
    \E i \in Builders :
        /\ FromSub(i)
        /\ SubCall(i).held = <<"G">>
        /\ finalized[i].k = "returned"
        /\ finalized[i].v.middleware = <<"G">>

\* use() was called on a after a.sub(x), and use() on the child
C15_WitnessLaterUse ==
    \E i, j, k \in Builders :
        /\ lineage[i].call = "sub"
        /\ lineage[i].held = <<"G">>
        /\ j > i
        /\ lineage[j].call = "use"
        /\ lineage[j].on = lineage[i].on
        /\ builders[j].middleware = <<"G", "M1">>
        /\ lineage[k].call = "use"
        /\ lineage[k].on = i
        /\ builders[k].middleware = <<"G", "M1">>
        /\ builders[i].middleware = <<"G">>

----------------------------------------------------------------------------
(* C16: builder copy-on-write (under SpecBuilder) *)

\* the step is a call of meta, examples or aliases on builder i
SetterCallOn(i) ==
    /\ Counted
    /\ \/ \E metadata \in MetaArgs : SameBuilder(i, meta(builders[i], metadata))
       \/ \E exampleList \in ExampleArgs :
              SameBuilder(i, examples(builders[i], exampleList))
       \/ \E aliasList \in AliasArgs :
              SameBuilder(i, commandAliases(builders[i], aliasList))

\* the step is a call of input, output or use; it returns a new builder
CopyReturnsNew ==
    (Input \/ Output \/ Use) =>
        /\ Len(builders') = Len(builders) + 1
        /\ lineage'[Len(builders')].call \in Copies
        /\ \A i \in Builders : builders'[i] = builders[i]

\* what the chain .input(schema).action(handler) finalizes when started from b
ChainFrom(b) == action(input(b, SObject(<<>>)))

\* C16 as stated: input, output and use return a new builder and leave the
\* builder they are called on unchanged, and what a chain started from a
\* builder finalizes (schema, middleware, metadata, aliases, examples) is the
\* same whatever call another chain started from that builder makes
C16_ChainsIndependent ==
    [][ /\ CopyReturnsNew
        /\ \A i \in Builders : ChainFrom(builders'[i]) = ChainFrom(builders[i])
      ]_vars

\* C16, amended: input, output and use return a new builder and leave every
\* builder unchanged; a builder changes only by a call of meta, examples or
\* aliases on that very builder, and a finalized definition changes only by
\* action on the builder it came from; so chains that share no builder do
\* not affect one another
C16_CopyOnWrite ==
    [][ /\ CopyReturnsNew
        /\ \A i \in Builders : builders'[i] # builders[i] => SetterCallOn(i)
        /\ \A i \in Builders : finalized'[i] # finalized[i] => Action
      ]_vars

\* two builders copied from one builder, meta called on the first of them:
\* the second and the builder they came from hold the metadata as it was
C16_Witness ==
    \E i, j \in Builders :
        /\ i # j
        /\ lineage[i].call = "input"
        /\ lineage[j].call = "use"
        /\ lineage[i].on = lineage[j].on
        /\ builders[i].metadata # lineage[i].made.metadata
        /\ builders[j].metadata = lineage[j].made.metadata
        /\ builders[lineage[i].on].metadata = lineage[j].made.metadata

\* meta was called on a builder before input: the copy carries the new metadata
C16_WitnessShared ==
    \E i \in Builders :
        /\ lineage[i].call = "input"
        /\ lineage[lineage[i].on].call = "add"
        /\ lineage[i].made.metadata # lineage[lineage[i].on].made.metadata
        /\ finalized[i].k = "returned"

----------------------------------------------------------------------------
(* C17: builder configuration error (under SpecBuilder) *)

\* the builder has no name or no input schema
Unconfigured(b) == b.name = <<>> \/ b.inputSchema = NoSchema

ConfigurationErrors ==
    { "Command name is required", "Command input schema is required" }

\* C17: action on a builder without a name or without an input schema fails
\* with a configuration error, returns no definition and leaves the registry
\* as it was; action on any other builder returns a definition; every
\* definition in the registry has a name and an input schema
C17_ConfigurationError ==
    /\ [][ \A i \in Builders :
               finalized'[i] # finalized[i] =>
                   IF Unconfigured(builders[i])
                   THEN /\ finalized'[i].k = "threw"
                        /\ finalized'[i].v \in ConfigurationErrors
                        /\ commands' = commands
                   ELSE /\ finalized'[i].k = "returned"
                        /\ MapGet(commands', builders[i].name) = finalized'[i].v
         ]_vars
    /\ [](\A i \in Builders :
              /\ finalized[i].k = "threw" => Unconfigured(builders[i])
              /\ finalized[i].k = "returned" => ~Unconfigured(builders[i]))
    /\ [](\A n \in 1..Len(commands) :
              commands[n].name # <<>> /\ commands[n].inputSchema # NoSchema)

\* action failed on a builder that has an input schema and no name, and the
\* registry holds the two built-in commands alone
C17_Witness ==
    \E i \in Builders :
        /\ finalized[i] = Threw("Command name is required")
        /\ builders[i].inputSchema # NoSchema
        /\ commands = BuiltinCommands

\* action failed on a builder that has a name and no input schema, after a
\* command was registered
C17_WitnessNoSchema ==
    \E i \in Builders :
        /\ finalized[i] = Threw("Command input schema is required")
        /\ builders[i].name # <<>>
        /\ Len(commands) = Len(BuiltinCommands) + 1

----------------------------------------------------------------------------
(* C18: configuration validation fallback (under Spec) *)

\* defaults + env + file + CLI as loadConfig merges them for this run
MergedConfiguration ==
    mergeConfig(
        mergeConfig(
            mergeConfig(Spread(cfg.mgr.defaults),
                        loadFromEnv(cfg.mgr.envPrefix, cfg.world.env)),
            loadFromFiles(cfg.mgr.configFiles, cfg.world.disk).config),
        EmptyObject)

\* a configuration was merged and fails the schema
MergedFails ==
    /\ cfg.configured
    /\ ~IsThrown(loadFromEnv(cfg.mgr.envPrefix, cfg.world.env))
    /\ ~SchemaParse(cfg.mgr.schema, MergedConfiguration).ok

DefaultsValid == SchemaParse(cfg.mgr.schema, cfg.mgr.defaults).ok

\* the field errors were logged, the configuration is the validated defaults,
\* and the run went on to tokenize and dispatch
FellBackAndWentOn ==
    /\ Logged(LogLine("error", "Configuration validation error:"))
    /\ Logged(FieldErrorLines(SchemaParse(cfg.mgr.schema, MergedConfiguration).errors))
    /\ DefaultsValid
    /\ config = SchemaParse(cfg.mgr.schema, cfg.mgr.defaults).value
    /\ parsed = parseArgs(argv, aliases)
    /\ ~Logged(LogLine("error", "Unexpected error"))
    /\ status = "resolved"

\* C18: whenever the merged configuration fails validation, loadConfig logs
\* the field errors and returns the validated defaults without raising, and
\* the run goes on to tokenize and dispatch (for an argument vector that holds
\* the runtime and the script)
C18_ValidationFallback ==
    (pc = "done" /\ MergedFails /\ Len(argv) >= 2) => FellBackAndWentOn

\* the same when the defaults alone pass the schema
C18_FallbackOfValidDefaults ==
    (pc = "done" /\ MergedFails /\ DefaultsValid /\ Len(argv) >= 2) =>
        FellBackAndWentOn

\* the defaults alone fail the schema: the fallback raised, nothing was
\* tokenized and the run ended in the outer catch
C18_Witness ==
    /\ pc = "done"
    /\ MergedFails
    /\ ~DefaultsValid
    /\ Len(argv) >= 2
    /\ parsed = NoParse
    /\ config = Undefined
    /\ LastLogged = LogLine("error", "Unexpected error")

\* the environment broke validation, the defaults were used and greet ran
C18_WitnessFallback ==
    /\ pc = "done"
    /\ MergedFails
    /\ FellBackAndWentOn
    /\ commandAction = GreetCommand
    /\ Len(handlerSaw) = 1

----------------------------------------------------------------------------
(* SpecFiles: loadConfig over several candidate files, with no environment  *)
(* variable and no command-line argument                                    *)

\* candidate files in configFiles, for the search through them
MaxCandidates == 2

FileWorlds ==
    { ConfigWorld(defaults, <<>>, kinds) :
          defaults \in LayerObjects(1, "dhost"),
          kinds \in SeqsUpTo(FileKinds, MaxCandidates) }

InitFiles ==
    /\ argv = <<>>
    /\ commands = <<>>
    /\ aliases = <<>>
    /\ cfg \in FileWorlds
    /\ cliArgs = EmptyObject
    /\ pluginsDir = FALSE
    /\ pc = "start"
    /\ config = Undefined
    /\ parsed = NoParse
    /\ commandAction = NoCommand
    /\ currentCtx = Undefined
    /\ mwIndex = 0
    /\ mwTrace = <<>>
    /\ handlerSaw = <<>>
    /\ result = Undefined
    /\ log = <<>>
    /\ shown = <<>>
    /\ status = "running"
    /\ NoBuilders

SpecFiles == InitFiles /\ [][NextConfig]_vars

----------------------------------------------------------------------------
(* C19: first-match config file (under SpecFiles) *)

Candidates == 1..Len(cfg.mgr.configFiles)

CandidateFile(i) == cfg.world.disk[cfg.mgr.configFiles[i]]

\* candidate i is of an extension one of the four registered loaders accepts
HasLoader(i) ==
    \E extension \in { <<"js">>, <<"ts">>, <<"json">>, <<"yml">>, <<"yaml">> } :
        EndsWith(cfg.mgr.configFiles[i], <<".">> \o extension)

\* candidate i exists, has a loader and loads without error
Qualifies(i) ==
    /\ CandidateFile(i).exists
    /\ HasLoader(i)
    /\ ~IsThrown(CandidateFile(i).content)

Qualifying == { i \in Candidates : Qualifies(i) }

FirstQualifying == CHOOSE i \in Qualifying : \A j \in Qualifying : i <= j

\* the content of the first qualifying candidate, {} if there is none
ExpectedFileLayer ==
    IF Qualifying = {} THEN EmptyObject ELSE CandidateFile(FirstQualifying).content

\* the candidates a loader may have been called on
ExpectedRead ==
    { i \in Candidates :
          /\ CandidateFile(i).exists
          /\ HasLoader(i)
          /\ Qualifying # {} => i <= FirstQualifying }

\* what loadConfig returns when the file layer is `layer`
ConfigOver(layer) ==
    SchemaParse(cfg.mgr.schema, mergeConfig(Spread(cfg.mgr.defaults), layer))

\* C19: the file layer is the content of the first candidate, in declared
\* order, that exists, has a loader and loads without error, and is empty
\* when there is none; the candidates before it are skipped, none after it is
\* read, and the configuration loadConfig returns holds, over the defaults,
\* the values of that file alone
C19_FirstMatch ==
    pc # "start" =>
        /\ loadFromFiles(cfg.mgr.configFiles, cfg.world.disk).config = ExpectedFileLayer
        /\ loadFromFiles(cfg.mgr.configFiles, cfg.world.disk).read = ExpectedRead
        /\ Logged(LogLine("info", "Loaded config")) <=> Qualifying # {}
        /\ ConfigOver(ExpectedFileLayer).ok =>
               /\ pc = "ok"
               /\ config = ConfigOver(ExpectedFileLayer).value

\* the first candidate failed to load, the second supplies the port, and the
\* configuration holds it
C19_Witness ==
    /\ pc = "ok"
    /\ Len(cfg.mgr.configFiles) = 2
    /\ CandidateFile(1).exists
    /\ IsThrown(CandidateFile(1).content)
    /\ Qualifies(2)
    /\ ~Has(cfg.mgr.defaults, <<"port">>)
    /\ config = ConfigOver(CandidateFile(2).content).value
    /\ GetPath(config, << <<"port">> >>) = NumV(3)

\* two candidates load; the second supplies a host the first does not, and
\* the configuration holds none
C19_WitnessStops ==
    /\ pc = "ok"
    /\ Len(cfg.mgr.configFiles) = 2
    /\ Qualifies(1)
    /\ Qualifies(2)
    /\ ~Has(CandidateFile(1).content, <<"db">>)
    /\ Has(CandidateFile(2).content, <<"db">>)
    /\ ~Has(config, <<"db">>)

----------------------------------------------------------------------------
(* SpecEnv: loadConfig over several environment variables, with no config   *)
(* file and no command-line argument                                        *)

\* variables in process.env, for the derivation of the environment layer
MaxVars == 2

EnvVarsMore ==
    EnvVars \cup { EnvEntry(<<"APP", "_", "CONSTRUCTOR", "_", "PORT">>, <<"2">>) }

EnvWorlds ==
    { ConfigWorld(defaults, env, <<>>) :
          defaults \in LayerObjects(1, "dhost"),
          env \in { list \in SeqsUpTo(EnvVarsMore, MaxVars) :
                      \A i, j \in 1..Len(list) : i # j => list[i].key # list[j].key } }

InitEnv ==
    /\ argv = <<>>
    /\ commands = <<>>
    /\ aliases = <<>>
    /\ cfg \in EnvWorlds
    /\ cliArgs = EmptyObject
    /\ pluginsDir = FALSE
    /\ pc = "start"
    /\ config = Undefined
    /\ parsed = NoParse
    /\ commandAction = NoCommand
    /\ currentCtx = Undefined
    /\ mwIndex = 0
    /\ mwTrace = <<>>
    /\ handlerSaw = <<>>
    /\ result = Undefined
    /\ log = <<>>
    /\ shown = <<>>
    /\ status = "running"
    /\ NoBuilders

SpecEnv == InitEnv /\ [][NextConfig]_vars

----------------------------------------------------------------------------
(* C20: environment derivation (under SpecEnv) *)

Variables == 1..Len(cfg.world.env)

Prefixed(i) == StartsWith(cfg.world.env[i].key, cfg.mgr.envPrefix)

\* the remainder of the name, lower-cased and split on "_"
KeyPath(i) ==
    Split(ToLowerCase(SubSeq(cfg.world.env[i].key, Len(cfg.mgr.envPrefix) + 1,
                             Len(cfg.world.env[i].key))),
          "_")

IsPathPrefix(p, q) == Len(p) <= Len(q) /\ SubSeq(q, 1, Len(p)) = p

\* no other prefixed variable names the same key, a key above or a key below
Unrivalled(i) ==
    \A j \in Variables \ {i} :
        Prefixed(j) =>
            ~IsPathPrefix(KeyPath(i), KeyPath(j)) /\ ~IsPathPrefix(KeyPath(j), KeyPath(i))

\* true/false -> boolean, optional-minus digits -> integer, decimal -> number,
\* anything else -> the string, for the texts of the variables
CoercedValue(i) ==
    LET text == cfg.world.env[i].value
    IN  IF text \in { <<"true">>, <<"TRUE">>, <<"True">> } THEN TrueV
        ELSE IF text \in { <<"false">>, <<"FALSE">> } THEN FalseV
        ELSE IF text = <<"2">> THEN NumV(2)
        ELSE IF text = <<"9">> THEN NumV(9)
        ELSE StrV(text)

\* the paths of the values of an object that are not objects themselves
RECURSIVE LeafPaths(_, _)
LeafPaths(val, path) ==
    IF val.k # "obj" \/ DOMAIN val.v = {} THEN { path }
    ELSE UNION { LeafPaths(val.v[key], Append(path, key)) : key \in DOMAIN val.v }

EnvironmentLayer == loadFromEnv(cfg.mgr.envPrefix, cfg.world.env)

\* every prefixed variable that no other rivals holds its coerced value at
\* its key path, and the layer holds nothing else
DerivedFromPrefixed ==
    /\ \A i \in Variables :
           (Prefixed(i) /\ Unrivalled(i)) =>
               GetPath(EnvironmentLayer, KeyPath(i)) = CoercedValue(i)
    /\ \A path \in LeafPaths(EnvironmentLayer, <<>>) \ { <<>> } :
           \E i \in Variables :
               /\ Prefixed(i)
               /\ KeyPath(i) = path
               /\ GetPath(EnvironmentLayer, path) = CoercedValue(i)

\* C20: exactly the variables whose name starts with the prefix contribute to
\* the environment layer, each at the key path its lower-cased remainder
\* split on "_" names, with its value coerced (read for variables that do not
\* name the same key, or a key above or below one another's)
C20_EnvironmentDerivation ==
    pc # "start" =>
        /\ ~IsThrown(EnvironmentLayer)
        /\ DerivedFromPrefixed

\* the same for the environments where the walk stays inside the layer:
\* loadFromEnv returns, and no key path passes through "constructor"
C20_WhenWalkStaysInside ==
    (/\ pc # "start"
     /\ ~IsThrown(EnvironmentLayer)
     /\ \A i \in Variables :
            \A n \in 1..(Len(KeyPath(i)) - 1) : KeyPath(i)[n] # <<"constructor">>)
        => DerivedFromPrefixed

\* APP_DB=off came before APP_DB_HOST=ehost: loadFromEnv threw and the
\* defaults alone were used
C20_Witness ==
    /\ pc = "fallback"
    /\ Len(cfg.world.env) = 2
    /\ cfg.world.env[1] = EnvEntry(<<"APP", "_", "DB">>, <<"off">>)
    /\ cfg.world.env[2] = EnvEntry(<<"APP", "_", "DB", "_", "HOST">>, <<"ehost">>)
    /\ IsThrown(EnvironmentLayer)
    /\ LastLogged = LogLine("error", "Error loading configuration")

\* APP_CONSTRUCTOR_PORT=2 alone: the layer is empty
C20_WitnessConstructor ==
    /\ pc # "start"
    /\ cfg.world.env = << EnvEntry(<<"APP", "_", "CONSTRUCTOR", "_", "PORT">>, <<"2">>) >>
    /\ EnvironmentLayer = EmptyObject

\* APP_DB_HOST=ehost and APP_PORT=2: a nested string and an integer
C20_WitnessNested ==
    /\ pc = "ok"
    /\ Len(cfg.world.env) = 2
    /\ EnvironmentLayer =
           ObjV((<<"db">> :> ObjV((<<"host">> :> StrV(<<"ehost">>))))
             @@ (<<"port">> :> NumV(2)))

----------------------------------------------------------------------------
(* C21: global middleware inheritance (under SpecBuilder) *)

\* the global middleware registered when add or sub returned the builder the
\* chain of builder i started from
GlobalAtCreation(i) == lineage[ChainRoot(i)].global

\* the global middleware registered by then come first, in their order
GlobalFirst(i) ==
    /\ IsPathPrefix(GlobalAtCreation(i), builders[i].middleware)
    /\ finalized[i].k = "returned" =>
           IsPathPrefix(GlobalAtCreation(i), finalized[i].v.middleware)

\* C21: every builder in a chain from a builder that add or sub returned after
\* cli.use(g), and the command finalized from it, has the global middleware
\* registered by then at the head of its sequence, in order of registration
C21_GlobalInheritance == \A i \in Builders : GlobalFirst(i)

\* the part that holds: the builders in a chain from a builder add returned
\* hold the global middleware registered by then, followed by their own
C21_AddedAfterUse ==
    \A i \in Builders :
        lineage[ChainRoot(i)].call = "add" =>
            /\ GlobalFirst(i)
            /\ builders[i].middleware = GlobalAtCreation(i) \o UsesAlong(i)

\* cli.add, then cli.use(G), then sub on the builder add had returned: the
\* child holds no middleware
C21_Witness ==
    \E i \in Builders :
        /\ lineage[i].call = "sub"
        /\ lineage[i].global = <<"G">>
        /\ lineage[lineage[i].on].call = "add"
        /\ lineage[lineage[i].on].global = <<>>
        /\ builders[i].middleware = <<>>

\* cli.use(G), then cli.add, then use(M1): the builder holds G, M1
C21_WitnessAdd ==
    \E i \in Builders :
        /\ lineage[i].call = "use"
        /\ lineage[ChainRoot(i)].call = "add"
        /\ builders[i].middleware = <<"G", "M1">>

----------------------------------------------------------------------------
(* C22: output validation is advisory (under Spec) *)

\* the handler's result is defined and does not fit the output schema
OutputFails ==
    /\ commandAction.outputSchema # NoSchema
    /\ result # Undefined
    /\ ~SchemaParse(commandAction.outputSchema, result).ok

\* the step from the handler's return to the end of the run
OutputStep == pc = "output" /\ pc' = "done"

\* C22: when the command has an output schema and the handler returned a
\* defined value that fails it, an error is logged, the handler is not invoked
\* again and its result stands, and the run completes; when the handler
\* returned undefined or there is no output schema, nothing is checked and
\* nothing is logged
C22_OutputAdvisory ==
    /\ [][OutputStep =>
            /\ result' = result
            /\ handlerSaw' = handlerSaw
            /\ mwTrace' = mwTrace
            /\ status' = "resolved"
            /\ IF OutputFails
               THEN /\ Len(log') > Len(log)
                    /\ SubSeq(log', 1, Len(log)) = log
                    /\ \E i \in Len(log) + 1..Len(log') :
                           /\ log'[i].level = "error"
                           /\ log'[i].paths =
                                  SchemaParse(commandAction.outputSchema, result).errors
               ELSE log' = log]_vars
    /\ [](Len(handlerSaw) <= 1)
    /\ [](pc = "done" => status = "resolved")

\* greet returned {message: 1}: the failure was logged after the handler ran
\* once, the result stands and the run resolved
C22_Witness ==
    /\ pc = "done"
    /\ status = "resolved"
    /\ commandAction = GreetCommand
    /\ Len(handlerSaw) = 1
    /\ result = HandlerResult("bad")
    /\ OutputFails
    /\ \E i \in 1..Len(log) : log[i].level = "error" /\ log[i].paths # {}

\* greet returned undefined: nothing was checked or logged
C22_WitnessUndefined ==
    /\ pc = "done"
    /\ commandAction = GreetCommand
    /\ Len(handlerSaw) = 1
    /\ Len(mwTrace) = 2
    /\ \A i \in 1..2 : mwTrace[i].did = "pass"
    /\ result = Undefined
    /\ log = <<>>

----------------------------------------------------------------------------
(* SpecNames: toDisplayCommandFormat, then toInternalCommandFormat, on a    *)
(* command name                                                             *)

MaxName == 3

\* the characters of a command name: two words, the colon, a space, a tab
NameChars == {"user", "create", ":", " ", "\t"}

InternalNames == SeqsUpTo(NameChars, MaxName)

InitNames ==
    /\ argv \in { <<name>> : name \in InternalNames }
    /\ commands = RegisteredCommands
    /\ aliases = BuildAliases(<<>>, RegisteredCommands, 1)
    /\ cfg = NotConfigured
    /\ cliArgs = EmptyObject
    /\ pluginsDir = FALSE
    /\ pc = "start"
    /\ config = Undefined
    /\ parsed = NoParse
    /\ commandAction = NoCommand
    /\ currentCtx = Undefined
    /\ mwIndex = 0
    /\ mwTrace = <<>>
    /\ handlerSaw = <<>>
    /\ result = Undefined
    /\ log = <<>>
    /\ shown = <<>>
    /\ status = "running"
    /\ NoBuilders

\* const displayName = this.toDisplayCommandFormat(name)
ToDisplay ==
    /\ pc = "start"
    /\ shown' = <<Show("display", toDisplayCommandFormat(argv[1]))>>
    /\ pc' = "displayed"
    /\ UNCHANGED <<RunInputs, ChainVars, commands, config, parsed, commandAction,
                   log, status>>

\* this.toInternalCommandFormat(displayName)
ToInternal ==
    /\ pc = "displayed"
    /\ parsed' = [command |-> toInternalCommandFormat(shown[1].name),
                  options |-> Undefined]
    /\ pc' = "internal"
    /\ UNCHANGED <<RunInputs, ChainVars, commands, config, commandAction, log,
                   shown, status>>

NextNames == ToDisplay \/ ToInternal

SpecNames == InitNames /\ [][NextNames]_vars

----------------------------------------------------------------------------
(* C23: name round trip (under SpecNames) *)

\* the segments of an internal name: what stands between its colons
Segments(name) == Split(name, ":")

\* no segment holds a literal space (none can hold a colon)
NoSpaceOrColon(name) ==
    \A i \in 1..Len(Segments(name)) :
        /\ ~Includes(Segments(name)[i], " ")
        /\ ~Includes(Segments(name)[i], ":")

\* every segment is non-empty and holds no whitespace character
PlainSegments(name) ==
    \A i \in 1..Len(Segments(name)) :
        /\ Segments(name)[i] # <<>>
        /\ \A j \in 1..Len(Segments(name)[i]) : ~IsSpace(Segments(name)[i][j])

RoundTripDone == pc = "internal"

\* C23 as stated: for every internal command name whose segments contain no
\* literal space or colon, toInternalCommandFormat(toDisplayCommandFormat(name))
\* is the name
C23_RoundTrip ==
    (RoundTripDone /\ NoSpaceOrColon(argv[1])) => parsed.command = argv[1]

\* C23 amended: for every internal command name whose segments are non-empty
\* and contain no whitespace character and no colon, the round trip gives the
\* name back
C23_RoundTripPlainSegments ==
    (RoundTripDone /\ PlainSegments(argv[1])) => parsed.command = argv[1]

\* user:create went to "user create" and back
C23_Witness ==
    /\ RoundTripDone
    /\ argv[1] = <<"user", ":", "create">>
    /\ PlainSegments(argv[1])
    /\ shown = <<Show("display", <<"user", " ", "create">>)>>
    /\ parsed.command = argv[1]

\* user::create went to "user  create" and came back as user:create
C23_WitnessEmptySegment ==
    /\ RoundTripDone
    /\ argv[1] = <<"user", ":", ":">>
    /\ NoSpaceOrColon(argv[1])
    /\ parsed.command = <<"user", ":">>

----------------------------------------------------------------------------
(* C24: the order of the phases of a run (under Spec) *)

\* the position a run may move to from position p
PhaseSuccessors(p) ==
    CASE p = "start" -> {"plugins", "done"}
      [] p = "plugins" -> {"parse"}
      [] p = "parse" -> {"dispatch", "done"}
      [] p = "dispatch" -> {"validate", "done"}
      [] p = "validate" -> {"chain", "handler", "done"}
      [] p = "chain" -> {"chain", "output", "done"}
      [] p = "handler" -> {"output", "done"}
      [] p = "output" -> {"done"}
      [] OTHER -> {}

\* configuration, then plugins, then the tokenizer, then the lookup, then the
\* input schema, then the chain and the handler; each leaves its mark only
\* from its own phase on
PhasesInOrder ==
    /\ pc = "start" => config = Undefined /\ commands = RegisteredCommands /\ log = <<>>
    /\ pc \in {"start", "plugins"} => commands = RegisteredCommands
    /\ pc \in {"start", "plugins", "parse"} => parsed = NoParse /\ shown = <<>>
    /\ pc \in {"start", "plugins", "parse", "dispatch"} => commandAction = NoCommand
    /\ pc \in {"start", "plugins", "parse", "dispatch", "validate"} =>
           mwTrace = <<>> /\ handlerSaw = <<>> /\ result = Undefined
    /\ parsed # NoParse => config # Undefined
    /\ commandAction # NoCommand => parsed # NoParse
    /\ (mwTrace # <<>> \/ handlerSaw # <<>>) => commandAction # NoCommand /\ InputCheck.ok
    /\ Len(handlerSaw) <= 1

HelpOrVersionShown ==
    /\ parsed # NoParse
    /\ \/ parsed.command = <<"help">> /\ shown = <<Show("help", <<>>)>>
       \/ parsed.command = <<"version">> /\ shown = <<Show("version", <<>>)>>
    /\ commandAction = NoCommand
    /\ ~Logged(LogLine("error", "Unknown command"))

UnknownCommand ==
    /\ parsed # NoParse
    /\ commandAction = NoCommand
    /\ Logged(LogLine("error", "Unknown command"))
    /\ shown = <<Show("help", <<>>)>>

ValidationFailed ==
    /\ commandAction # NoCommand
    /\ ~InputCheck.ok
    /\ InputErrorLogged
    /\ handlerSaw = <<>>

\* a middleware or the handler threw
ExecutionFailed ==
    /\ commandAction # NoCommand
    /\ InputCheck.ok
    /\ \/ LastLogged = LogLine("error", "Error executing command")
       \/ Logged(FieldErrorLines({<<"thrown">>}))

\* the handler, or a middleware in its place, returned
Success ==
    /\ commandAction # NoCommand
    /\ InputCheck.ok
    /\ handlerSaw # <<>> \/ result # Undefined
    /\ LastLogged # LogLine("error", "Error executing command")
    /\ ~Logged(FieldErrorLines({<<"thrown">>}))

Outcomes ==
    { o \in {"helpOrVersion", "unknownCommand", "validationFailed",
             "executionFailed", "success"} :
          CASE o = "helpOrVersion" -> HelpOrVersionShown
            [] o = "unknownCommand" -> UnknownCommand
            [] o = "validationFailed" -> ValidationFailed
            [] o = "executionFailed" -> ExecutionFailed
            [] OTHER -> Success }

\* the run ended in the catch around the whole of run, before the tokenizer
EndedUnexpectedly ==
    /\ pc = "done"
    /\ parsed = NoParse
    /\ LastLogged = LogLine("error", "Unexpected error")

\* C24: in every run the configuration is loaded before the plugins, both
\* before the arguments are tokenized, and the lookup of the command, the
\* input validation and the handler come after that in this order; the run
\* ends in exactly one of help or version shown, UnknownCommand,
\* ValidationFailed, ExecutionFailed and Success; the handler is entered at
\* most once
C24_PhaseOrder ==
    /\ [][pc' # pc => pc' \in PhaseSuccessors(pc)]_vars
    /\ [](PhasesInOrder)
    /\ [](pc = "done" => Cardinality(Outcomes) = 1)

\* the same, for the runs that do not end in the catch around the whole of run
C24_PhaseOrderUnlessUnexpected ==
    /\ [][pc' # pc => pc' \in PhaseSuccessors(pc)]_vars
    /\ [](PhasesInOrder)
    /\ [](pc = "done" => IF EndedUnexpectedly THEN Outcomes = {}
                         ELSE Cardinality(Outcomes) = 1)

\* the defaults do not validate: the run ended before the plugins were loaded
\* and before the arguments were tokenized, in none of the five outcomes
C24_Witness ==
    /\ EndedUnexpectedly
    /\ Len(argv) >= 3
    /\ config = Undefined
    /\ Outcomes = {}

\* a run of greet through every phase, ending in Success
C24_WitnessSuccess ==
    /\ pc = "done"
    /\ commandAction = GreetCommand
    /\ Len(mwTrace) = 2
    /\ Len(handlerSaw) = 1
    /\ result = HandlerResult("ok")
    /\ Outcomes = {"success"}

----------------------------------------------------------------------------
(* C25: command-line options and the configuration of the handler (under    *)
(* Spec)                                                                    *)

\* the handler was invoked by an engine that has a ConfigManager
HandlerGotConfig == handlerSaw # <<>> /\ cfg.configured

\* C25: the config object handed to the handler is resolved with the parsed
\* command-line options of the run as the highest layer: an option given for
\* a configuration key is the value of that key in the handler's config
C25_CommandLineOverrides ==
    HandlerGotConfig =>
        \A key \in (DOMAIN ConfigSchema.shape) \cap (DOMAIN parsed.options.v) :
            /\ Has(config, key)
            /\ config.v[key] = parsed.options.v[key]

\* what the handler is handed: the configuration resolved from file,
\* environment and defaults with an empty command-line layer
C25_ConfigWithoutCommandLine ==
    HandlerGotConfig =>
        config = loadConfig(cfg.mgr, cfg.world, EmptyObject).value

\* ping --debug over the defaults {port: 1}: the handler ran with a config
\* that holds no debug
C25_Witness ==
    /\ HandlerGotConfig
    /\ commandAction = PingCommand
    /\ parsed.options = ObjV((<<"debug">> :> TrueV))
    /\ config = Layer(NumV(1), Undefined)

----------------------------------------------------------------------------
(* SpecMerge: ConfigManager.mergeConfig on objects held in memory.  A heap  *)
(* is a sequence of objects; an object maps its keys to values, and a value *)
(* that is a plain object is the reference [k |-> "ref", v |-> address].    *)

MaxLayers == 2

Ref(address) == [k |-> "ref", v |-> address]

\* the keys of an object in the order for..in visits them
RECURSIVE KeySeq(_)
KeySeq(keys) ==
    IF keys = {} THEN <<>>
    ELSE LET key == CHOOSE key \in keys : TRUE
         IN  <<key>> \o KeySeq(keys \ {key})

\* the object literal val built in memory: [heap, val] afterwards
RECURSIVE Store(_, _)
RECURSIVE StoreFields(_, _, _, _)
StoreFields(heap, obj, keys, done) ==
    IF keys = <<>>
    THEN [heap |-> Append(heap, done), val |-> Ref(Len(heap) + 1)]
    ELSE LET child == Store(heap, obj.v[keys[1]])
         IN  StoreFields(child.heap, obj, Tail(keys), (keys[1] :> child.val) @@ done)

Store(heap, val) ==
    IF IsPlainObject(val)
    THEN StoreFields(heap, val, KeySeq(DOMAIN val.v), <<>>)
    ELSE [heap |-> heap, val |-> val]

\* the value a heap value stands for
RECURSIVE Deref(_, _)
Deref(heap, val) ==
    IF val.k = "ref"
    THEN ObjV([key \in DOMAIN heap[val.v] |-> Deref(heap, heap[val.v][key])])
    ELSE val

\* const result = target: no copy is made of an object
NoSpreadOnHeap(heap, target) ==
    IF target.k = "ref"
    THEN [heap |-> heap, address |-> target.v]
    ELSE [heap |-> Append(heap, Spread(target).v), address |-> Len(heap) + 1]

\* const result = { ...target }: a new object with the own keys of target
SpreadOnHeap(heap, target) ==
    [heap |-> Append(heap, IF target.k = "ref" THEN heap[target.v]
                           ELSE Spread(target).v),
     address |-> Len(heap) + 1]

\* result[key] = val
WriteKey(heap, address, key, val) ==
    [heap EXCEPT ![address] = (key :> val) @@ @]

\* ConfigManager.mergeConfig(target, source) in memory: [heap, val] afterwards
RECURSIVE mergeOnHeap(_, _, _)
RECURSIVE MergeKeysOnHeap(_, _, _, _)
MergeKeysOnHeap(heap, address, source, keys) ==
    IF keys = <<>> THEN [heap |-> heap, val |-> Ref(address)]
    ELSE LET key == keys[1]
             value == heap[source][key]
         IN  IF value.k = "ref"
             THEN LET held == IF key \in DOMAIN heap[address] /\ Truthy(heap[address][key])
                              THEN [heap |-> heap, val |-> heap[address][key]]
                              ELSE [heap |-> Append(heap, <<>>),
                                    val |-> Ref(Len(heap) + 1)]
                      inner == mergeOnHeap(held.heap, held.val, value)
                  IN  MergeKeysOnHeap(WriteKey(inner.heap, address, key, inner.val),
                                      address, source, Tail(keys))
             ELSE MergeKeysOnHeap(WriteKey(heap, address, key, value),
                                  address, source, Tail(keys))

mergeOnHeap(heap, target, source) ==
    LET spread == SpreadOnHeap(heap, target)
    IN  MergeKeysOnHeap(spread.heap, spread.address, source.v,
                        KeySeq(DOMAIN heap[source.v]))

\* an object with port, db and tags, each left out when given as Undefined
MergeObject(port, db, tags) ==
    ObjV([key \in { x \in {<<"port">>, <<"db">>, <<"tags">>} :
                       CASE x = <<"port">> -> port # Undefined
                         [] x = <<"db">> -> db # Undefined
                         [] OTHER -> tags # Undefined } |->
             CASE key = <<"port">> -> port
               [] key = <<"db">> -> db
               [] OTHER -> tags])

Pool(n) == ObjV((<<"max">> :> NumV(n)))

MergeTargets ==
    { MergeObject(port, db, tags) :
          port \in {Undefined, NumV(1)},
          db \in {Undefined, NullV, StrV(<<"off">>),
                  ObjV((<<"host">> :> StrV(<<"dhost">>))),
                  ObjV((<<"host">> :> StrV(<<"dhost">>)) @@ (<<"pool">> :> Pool(1)))},
          tags \in {Undefined, ArrV(<<NumV(1)>>)} }

MergeSources ==
    { MergeObject(port, db, tags) :
          port \in {Undefined, NumV(2)},
          db \in {Undefined, NullV, ObjV((<<"host">> :> StrV(<<"ehost">>))),
                  ObjV((<<"pool">> :> Pool(2)))},
          tags \in {Undefined, ArrV(<<NumV(2), NumV(3)>>)} }

\* the target and the sources built in memory one after the other
RECURSIVE StoreAll(_, _, _)
StoreAll(heap, vals, done) ==
    IF vals = <<>> THEN [heap |-> heap, vals |-> done]
    ELSE LET stored == Store(heap, vals[1])
         IN  StoreAll(stored.heap, Tail(vals), Append(done, stored.val))

MergeWorld(target, sources) ==
    LET stored == StoreAll(<<>>, <<target>> \o sources, <<>>)
    IN  [heap |-> stored.heap, target |-> stored.vals[1], sources |-> Tail(stored.vals)]

\* a target and one to MaxLayers sources; or an object merged with itself
MergeWorlds ==
    { MergeWorld(target, sources) :
          target \in MergeTargets,
          sources \in SeqsUpTo(MergeSources, MaxLayers) \ {<<>>} }
    \cup { [heap |-> MergeWorld(target, <<>>).heap,
            target |-> MergeWorld(target, <<>>).target,
            sources |-> <<MergeWorld(target, <<>>).target>>] : target \in MergeTargets }

InitMerge ==
    /\ argv = <<>>
    /\ commands = RegisteredCommands
    /\ aliases = BuildAliases(<<>>, RegisteredCommands, 1)
    /\ cfg \in MergeWorlds
    /\ cliArgs = EmptyObject
    /\ pluginsDir = FALSE
    /\ pc = "start"
    /\ config = [heap |-> cfg.heap, val |-> cfg.target, layers |-> 0]
    /\ parsed = NoParse
    /\ commandAction = NoCommand
    /\ currentCtx = Undefined
    /\ mwIndex = 0
    /\ mwTrace = <<>>
    /\ handlerSaw = <<>>
    /\ result = Undefined
    /\ log = <<>>
    /\ shown = <<>>
    /\ status = "running"
    /\ NoBuilders

\* merged = this.mergeConfig(merged, layer), for the next layer
MergeLayer ==
    /\ pc = "start"
    /\ config.layers < Len(cfg.sources)
    /\ LET merged == mergeOnHeap(config.heap, config.val, cfg.sources[config.layers + 1])
       IN  config' = [heap |-> merged.heap, val |-> merged.val,
                      layers |-> config.layers + 1]
    /\ UNCHANGED <<RunInputs, ChainVars, commands, parsed, commandAction, log,
                   shown, status, pc>>

NextMerge == MergeLayer

SpecMerge == InitMerge /\ [][NextMerge]_vars

----------------------------------------------------------------------------
(* C26: the deep-merge rule (under SpecMerge) *)

\* the rule for one call: target t, source s, result r
DeepMergeRule(t, s, r) ==
    /\ DOMAIN r.v = (DOMAIN t.v) \cup (DOMAIN s.v)
    /\ \A key \in DOMAIN r.v :
           IF key \notin DOMAIN s.v THEN r.v[key] = t.v[key]
           ELSE IF IsPlainObject(s.v[key])
           THEN r.v[key] = mergeConfig(IF key \in DOMAIN t.v THEN t.v[key]
                                       ELSE EmptyObject,
                                       s.v[key])
           ELSE r.v[key] = s.v[key]

\* no object that was in memory before the call is changed by it
NothingModified ==
    /\ Len(config'.heap) >= Len(config.heap)
    /\ \A address \in 1..Len(config.heap) : config'.heap[address] = config.heap[address]

\* C26: for mergeConfig(target, source) a key absent from source keeps
\* target's value, a key whose source value is a plain object holds the merge
\* of target's value at the key (an empty object if absent) with it, any other
\* source value (scalar, null, array) is taken as it is; and no object of
\* target or source is modified
C26_DeepMerge ==
    [][config'.layers = config.layers + 1 =>
          /\ DeepMergeRule(Deref(config.heap, config.val),
                           Deref(config.heap, cfg.sources[config'.layers]),
                           Deref(config'.heap, config'.val))
          /\ NothingModified
          /\ Deref(config'.heap, cfg.target) = Deref(cfg.heap, cfg.target)]_vars

\* {port: 1, db: {host, pool: {max: 1}}, tags: [1]} merged with
\* {db: {pool: {max: 2}}, tags: [2, 3]}
C26_Witness ==
    /\ config.layers = 1
    /\ Deref(cfg.heap, cfg.target) =
           MergeObject(NumV(1),
                       ObjV((<<"host">> :> StrV(<<"dhost">>)) @@ (<<"pool">> :> Pool(1))),
                       ArrV(<<NumV(1)>>))
    /\ Deref(config.heap, config.val) =
           MergeObject(NumV(1),
                       ObjV((<<"host">> :> StrV(<<"dhost">>)) @@ (<<"pool">> :> Pool(2))),
                       ArrV(<<NumV(2), NumV(3)>>))
    /\ Deref(config.heap, cfg.target) = Deref(cfg.heap, cfg.target)

----------------------------------------------------------------------------
(* C27: context threading (under Spec) *)

\* patch on top of ctx: the keys of both, the value of the patch where it
\* holds the key
PatchedOnTop(ctx, patch) ==
    ObjV([key \in (DOMAIN ctx.v) \cup (DOMAIN patch.v) |->
             IF key \in DOMAIN patch.v THEN patch.v[key] ELSE ctx.v[key]])

\* the patch the i-th middleware entered gave to next (Undefined: none)
PatchOf(i) == NextOptions(mwTrace[i].id, mwTrace[i].did, mwTrace[i].saw)

\* the engine's context with the patches of the first i middleware on top
RECURSIVE Threaded(_)
Threaded(i) ==
    IF i = 0 THEN OriginalContext
    ELSE IF PatchOf(i) = Undefined THEN Threaded(i - 1)
    ELSE PatchedOnTop(Threaded(i - 1), PatchOf(i))

C27_WitnessLaterWins ==
    /\ commandAction = GreetCommand
    /\ Len(mwTrace) = 2
    /\ \A i \in 1..2 : mwTrace[i].did = "tag"
    /\ handlerSaw = <<ObjV((<<"logger">> :> Logger) @@ (<<"user">> :> StrV(<<"M2">>)))>>

\* ping has no middleware: its handler received the original context
C27_WitnessNoMiddleware ==
    /\ commandAction = PingCommand
    /\ mwTrace = <<>>
    /\ handlerSaw = <<OriginalContext>>

----------------------------------------------------------------------------
(* C28: the value after '=' (under SpecArgs) *)

\* the option tokens --K=V that no later token of the same key overrides
EqualsTokens ==
    { i \in OptionIndexes :
          /\ HasEquals(FlagText(Arguments[i]))
          /\ \A j \in OptionIndexes : KeyOf(Arguments[j]) = KeyOf(Arguments[i]) => j <= i }

\* the text of the token at i after its first '='
AfterFirstEquals(i) ==
    SubSeq(FlagText(Arguments[i]), FirstEquals(FlagText(Arguments[i])) + 1,
           Len(FlagText(Arguments[i])))

\* C28: for an option token --K=V, where V may itself hold '=', the tokenizer
\* stores under K the whole text after the first '='
C28_ValueAfterEquals ==
    PlainArguments =>
        \A i \in EqualsTokens :
            /\ Has(parsed.options, KeyOf(Arguments[i]))
            /\ parsed.options.v[KeyOf(Arguments[i])] = StrV(AfterFirstEquals(i))

\* the same for a value V that holds no '='
C28_ValueWithoutEquals ==
    PlainArguments =>
        \A i \in EqualsTokens :
            ~Includes(AfterFirstEquals(i), "=") =>
                /\ Has(parsed.options, KeyOf(Arguments[i]))
                /\ parsed.options.v[KeyOf(Arguments[i])] = StrV(AfterFirstEquals(i))

\* greet --name=a=b: the options hold name "a"
C28_Witness ==
    /\ PlainArguments
    /\ argv = Argv(<< <<"greet">>, <<"-", "-", "name", "=", "a", "=", "b">> >>)
    /\ parsed.options = ObjV((<<"name">> :> StrV(<<"a">>)))

\* greet --name=World: the options hold name "World"
C28_WitnessPlain ==
    /\ PlainArguments
    /\ argv = Argv(<< <<"greet">>, NameIsWorld >>)
    /\ parsed.options = ObjV((<<"name">> :> StrV(<<"World">>)))

----------------------------------------------------------------------------
(* C29: the input-error report and the handler (under Spec) *)

\* "Invalid command arguments:" and the --help hint were logged
InputReportLogged ==
    /\ Logged(LogLine("error", "Invalid command arguments:"))
    /\ Logged(LogLine("info", "Run with --help for usage information."))

\* C29: in every run that logs "Invalid command arguments:" together with the
\* "Run with --help" hint, the handler of the command was not invoked
C29_ReportImpliesNoExecution ==
    InputReportLogged => handlerSaw = <<>>

\* the report is logged whenever the input fails the schema, and then the
\* handler was not invoked
C29_InputFailureReported ==
    (pc = "done" /\ commandAction # NoCommand /\ ~InputCheck.ok) =>
        InputReportLogged /\ handlerSaw = <<>>

\* greet --name=World passed the input schema, its handler ran and returned
\* {message: 1}, and the report was logged for the output
C29_Witness ==
    /\ pc = "done"
    /\ commandAction = GreetCommand
    /\ InputCheck.ok
    /\ Len(handlerSaw) = 1
    /\ result = HandlerResult("bad")
    /\ InputReportLogged

\* the handler of ping threw a ZodError of its own, and the report was logged
C29_WitnessThrown ==
    /\ pc = "done"
    /\ commandAction = PingCommand
    /\ Len(handlerSaw) = 1
    /\ InputReportLogged
    /\ Logged(FieldErrorLines({<<"thrown">>}))

----------------------------------------------------------------------------
(* SpecHelp: the command list of Devtool.displayHelp over registries that   *)
(* add, sub, input and action build                                         *)

MaxHelpCommands == 3

\* (command.metadata?.group as string) || "General"
HelpGroup(command) ==
    IF command.metadata # Undefined /\ Has(command.metadata, <<"group">>)
       /\ Truthy(command.metadata.v[<<"group">>])
    THEN command.metadata.v[<<"group">>].v
    ELSE <<"General">>

\* groupedCommands: the groups of the commands without parent, in the order
\* in which the registry first holds one of each
RECURSIVE HelpGroups(_, _)
HelpGroups(map, groups) ==
    IF map = <<>> THEN groups
    ELSE HelpGroups(Tail(map),
             IF map[1].parent # <<>>
                \/ \E i \in 1..Len(groups) : groups[i] = HelpGroup(map[1])
             THEN groups
             ELSE Append(groups, HelpGroup(map[1])))

\* the commands of one group, in the order of the registry
HelpGroupCommands(map, group) ==
    SelectSeq(map, LAMBDA command : command.parent = <<>> /\ HelpGroup(command) = group)

\* the entries whose name splits at ':' into two parts, the first being name
HelpSubcommands(map, name) ==
    SelectSeq(map, LAMBDA command :
        /\ Len(Split(command.name, ":")) = 2
        /\ Split(command.name, ":")[1] = name)

HelpLine(line, text, name) == [line |-> line, text |-> text, name |-> name]

\* the line of a command, then the lines of its direct subcommands
HelpCommandLines(map, command) ==
    LET displayName == toDisplayCommandFormat(command.name)
        subcommands == HelpSubcommands(map, command.name)
    IN  <<HelpLine("command", displayName, command.name)>>
        \o [i \in 1..Len(subcommands) |->
               HelpLine("subcommand",
                        displayName \o <<" ">> \o Split(subcommands[i].name, ":")[2],
                        subcommands[i].name)]

RECURSIVE HelpLinesOfCommands(_, _)
HelpLinesOfCommands(map, list) ==
    IF list = <<>> THEN <<>>
    ELSE HelpCommandLines(map, list[1]) \o HelpLinesOfCommands(map, Tail(list))

RECURSIVE HelpLinesOfGroups(_, _)
HelpLinesOfGroups(map, groups) ==
    IF groups = <<>> THEN <<>>
    ELSE <<HelpLine("group", groups[1], <<>>)>>
         \o HelpLinesOfCommands(map, HelpGroupCommands(map, groups[1]))
         \o HelpLinesOfGroups(map, Tail(groups))

\* the lines displayHelp prints under "Commands:"
HelpLines(map) == HelpLinesOfGroups(map, HelpGroups(map, <<>>))

\* builder.input(schema).action(handler): the definition that is registered
Finalize(b) == action(input(b, SObject(<<>>)))

UserBuilder == add(<<>>, AddConfig(<<"user">>, <<>>))

\* user, user create and user create now by sub, user:create by add, ping in
\* the group admin, greet
HelpCandidates ==
    { Finalize(UserBuilder),
      Finalize(sub(UserBuilder, SubString(<<"create">>))),
      Finalize(sub(sub(UserBuilder, SubString(<<"create">>)), SubString(<<"now">>))),
      Finalize(add(<<>>, AddConfig(<<"user", ":", "create">>, <<>>))),
      Finalize(add(<<>>, AddConfig(<<"ping">>, <<"admin">>))),
      Finalize(add(<<>>, AddConfig(<<"greet">>, <<>>))) }

RECURSIVE RegisterAll(_, _)
RegisterAll(map, definitions) ==
    IF definitions = <<>> THEN map
    ELSE RegisterAll(registerCommand(map, definitions[1]), Tail(definitions))

\* the registry after up to MaxHelpCommands calls of action
HelpRegistries ==
    { RegisterAll(BuiltinCommands, definitions) :
          definitions \in SeqsUpTo(HelpCandidates, MaxHelpCommands) }

InitHelp ==
    /\ argv = Argv(<<>>)
    /\ commands \in HelpRegistries
    /\ aliases = <<>>
    /\ cfg = NotConfigured
    /\ cliArgs = EmptyObject
    /\ pluginsDir = FALSE
    /\ pc = "start"
    /\ config = Undefined
    /\ parsed = NoParse
    /\ commandAction = NoCommand
    /\ currentCtx = Undefined
    /\ mwIndex = 0
    /\ mwTrace = <<>>
    /\ handlerSaw = <<>>
    /\ result = Undefined
    /\ log = <<>>
    /\ shown = <<>>
    /\ status = "running"
    /\ NoBuilders

\* this.displayHelp()
DisplayHelp ==
    /\ pc = "start"
    /\ shown' = HelpLines(commands)
    /\ pc' = "done"
    /\ UNCHANGED <<RunInputs, ChainVars, commands, config, parsed, commandAction,
                   log, status>>

NextHelp == DisplayHelp

SpecHelp == InitHelp /\ [][NextHelp]_vars

----------------------------------------------------------------------------
(* C30: the general help lists every command once (under SpecHelp) *)

HelpShown == pc = "done"

\* the header the line at j stands under
HeaderAt(j) ==
    shown[CHOOSE h \in 1..j :
              /\ shown[h].line = "group"
              /\ \A k \in h + 1..j : shown[k].line # "group"].text

\* the command line the subcommand line at j stands under
OwnerAt(j) ==
    shown[CHOOSE h \in 1..j :
              /\ shown[h].line = "command"
              /\ \A k \in h + 1..j : shown[k].line # "command"].name

\* the names of the command lines under the header of group, in order
ListedInGroup(group) ==
    LET at == SelectSeq([j \in 1..Len(shown) |-> j],
                        LAMBDA j : shown[j].line = "command" /\ HeaderAt(j) = group)
    IN  [i \in 1..Len(at) |-> shown[at[i]].name]

\* the names of the registered commands of group that have no parent, in
\* registration order
RegisteredInGroup(group) ==
    LET of == SelectSeq(commands,
                        LAMBDA command : command.parent = <<>> /\ HelpGroup(command) = group)
    IN  [i \in 1..Len(of) |-> of[i].name]

ListedOnce ==
    \A i \in 1..Len(commands) :
        Cardinality({ j \in 1..Len(shown) :
                        shown[j].line # "group" /\ shown[j].name = commands[i].name }) = 1

GroupedInOrder ==
    /\ \A j \in 1..Len(shown) : shown[j].line # "group" =>
           \E h \in 1..j : shown[h].line = "group"
    /\ \A h, k \in 1..Len(shown) :
           (shown[h].line = "group" /\ shown[k].line = "group" /\ h # k) =>
               shown[h].text # shown[k].text
    /\ \A i \in 1..Len(commands) :
           commands[i].parent = <<>> =>
               ListedInGroup(HelpGroup(commands[i])) = RegisteredInGroup(HelpGroup(commands[i]))

UnderParent ==
    /\ \A j \in 1..Len(shown) :
           shown[j].line = "subcommand" =>
               MapGet(commands, shown[j].name).parent = OwnerAt(j)
    /\ \A i \in 1..Len(commands) :
           commands[i].parent # <<>> =>
               \E j \in 1..Len(shown) :
                   /\ shown[j].line = "subcommand"
                   /\ shown[j].name = commands[i].name

\* C30: for every set of commands registered through add, sub and action,
\* also subcommands whose parent was never finalized, commands added with a
\* colon in their name and commands nested more than one level deep, the
\* general help holds each registered command exactly once, the top-level
\* commands grouped by metadata.group in registration order within a group,
\* each subcommand under its immediate parent
C30_HelpListsEveryCommand ==
    HelpShown => ListedOnce /\ GroupedInOrder /\ UnderParent

\* every subcommand has a registered parent that has no parent itself and no
\* colon in its name, and no command without parent is named like a
\* subcommand of a registered one
ParentsListed ==
    /\ \A i \in 1..Len(commands) :
           commands[i].parent # <<>> =>
               /\ MapHas(commands, commands[i].parent)
               /\ MapGet(commands, commands[i].parent).parent = <<>>
               /\ Len(Split(commands[i].name, ":")) = 2
    /\ \A i \in 1..Len(commands) :
           (commands[i].parent = <<>> /\ Len(Split(commands[i].name, ":")) = 2) =>
               ~MapHas(commands, Split(commands[i].name, ":")[1])

\* the same for the registries in which every parent is listed
C30_WhenParentsAreListed ==
    (HelpShown /\ ParentsListed) => ListedOnce /\ GroupedInOrder /\ UnderParent

\* user create registered by sub on a builder that was never finalized: the
\* help lists help and version and not user create
C30_Witness ==
    /\ HelpShown
    /\ Len(commands) = 3
    /\ commands[3].name = <<"user", ":", "create">>
    /\ commands[3].parent = <<"user">>
    /\ ~MapHas(commands, <<"user">>)
    /\ \A j \in 1..Len(shown) : shown[j].name # <<"user", ":", "create">>

\* user, ping in the group admin, user create under user
C30_WitnessListed ==
    /\ HelpShown
    /\ ParentsListed
    /\ Len(commands) = 5
    /\ [j \in 1..Len(shown) |-> shown[j].text] =
           << <<"General">>, <<"help">>, <<"version">>,
              <<"default">>, <<"user">>, <<"user", " ", "create">>,
              <<"admin">>, <<"ping">> >>

====
